---- MODULE Spec2Model ----
\* Verification model of the reverse proxy (tbsphathuynh/proxy):
\*   - the three load-balancing strategies with the shared backend state,
\*   - the forwarder (Server.proxyHandler) and Backend.ServeHTTP,
\*   - the LRU+TTL response cache middleware.
\* Indices are 1-based here; index i of the model is index i-1 of the Go slices.
EXTENDS Integers, Sequences, FiniteSets, TLC

\* ------------------------------------------------------------------ bounds
MaxReq == 2        \* concurrent proxyHandler executions
MaxServe == 2      \* concurrent direct Backend.ServeHTTP calls per backend
MaxHist == 30      \* recorded SelectBackend results
MaxCW == 6         \* cap on |currentWeights[i]|
MaxCacheSize == 2  \* largest configured Cache.maxSize
MaxCacheReq == 2   \* concurrent executions of the cache middleware
MaxTime == 2       \* clock ticks
TTLTicks == 1      \* Cache.ttl in clock ticks
TicksPerSecond == 4  \* resolution of the rate limiter's clock
MaxRLTime == 4     \* last tick of the rate limiter's clock
MaxCapacity == 2   \* largest configured RateLimiter.capacity
MaxRefillRate == 3 \* largest configured RateLimiter.refillRate
MaxRLReq == 2      \* concurrent executions of RateLimiter.Wrap
MaxBurst == 3      \* decisions recorded per client in its bucket's first second
MaxSpacing == 3    \* largest number of ticks between two requests of a steady stream
MaxStreamTime == 12  \* last tick of a steady stream
MaxPipeReq == 2    \* concurrent executions of the assembled handler
MaxInflight == 2   \* requests the HTTP server is serving at a time
GraceTicks == 2    \* the grace period of main's Shutdown call, in ticks
MaxRounds == 2     \* executions of performHealthChecks

\* ------------------------------------------------------- program constants
RoundRobin == "round-robin"
LeastConnections == "least-connections"
WeightedRoundRobin == "weighted-round-robin"
Algorithms == {RoundRobin, LeastConnections, WeightedRoundRobin}

ErrNone == "none"
ErrNoBackends == "no backends available"
ErrNoHealthy == "no healthy backends available"

\* Backend configurations handed to the balancer constructors.
PoolConfigs ==
    { << >>,
      << [url |-> "b1", weight |-> 5], [url |-> "b2", weight |-> 1] >>,
      << [url |-> "b1", weight |-> 2], [url |-> "b2", weight |-> 0],
         [url |-> "b3", weight |-> 1] >>,
      << [url |-> "b1", weight |-> 1], [url |-> "b1", weight |-> 1] >> }

URLInputs == {"b1", "b2", "b3", "unknown"}
WeightInputs == {-1, 0, 2}

\* Goroutines that call SelectBackend: the proxyHandler executions, and caller
\* 0, which uses the LoadBalancer interface directly (as the benchmarks do).
Requests == 1..MaxReq
ApiCaller == 0
Callers == {ApiCaller} \cup Requests

VARIABLES
    algorithm,        \* strategy chosen by the factory
    urls,             \* HTTPBackend.url, per pool position
    healthy,          \* HTTPBackend.healthy
    weight,           \* HTTPBackend.weight
    connections,      \* HTTPBackend.connections (atomic)
    current,          \* RoundRobinBalancer.current
    currentWeights,   \* WeightedRoundRobinBalancer.currentWeights
    pc,               \* position of each caller
    sel,              \* backend a proxyHandler execution forwards to
    scan,             \* locals of a running LeastConnections.SelectBackend
    serving,          \* direct Backend.ServeHTTP calls in progress, per backend
    lastRet,          \* the SelectBackend return of the last step, if any
    history,          \* recorded SelectBackend results (see RecordSelection)
    pristine          \* no health or weight update has happened yet

lbVars == << algorithm, urls, healthy, weight, connections, current,
             currentWeights, pc, sel, scan, serving, lastRet, history, pristine >>

VARIABLES
    maxSize,          \* Cache.maxSize
    inPipeline,       \* the cache sits behind the rate limiter (Server.buildHandler)
    entries,          \* Cache.entries: key -> node
    nxt,              \* cacheNode.next, of the dummies and of every node
    prv,              \* cacheNode.prev
    nkey,             \* cacheNode.key
    nentry,           \* cacheNode.entry
    currentSize,      \* Cache.currentSize
    now,              \* time.Now()
    pending,          \* per key: executions of Wrap between Cache.get and the handler's return
    lastServe,        \* the response completed by the last step, if any
    origin,           \* per key, the response the client got on the miss that
                      \* stored the entry now in the map
    promised,         \* per key, until when a completed 2xx GET is owed hits
    recency           \* the cached keys by last access (stored or served), latest first

cacheVars == << maxSize, inPipeline, entries, nxt, prv, nkey, nentry,
                currentSize, now, pending, lastServe, origin, promised, recency >>

VARIABLES
    capacity,         \* RateLimiter.capacity
    refillRate,       \* RateLimiter.refillRate
    buckets,          \* RateLimiter.buckets: client key -> TokenBucket (tokens, lastRefill)
    rlNow,            \* time.Now() as the rate limiter reads it, in ticks
    rlpc,             \* position of each execution of RateLimiter.Wrap
    rlClient,         \* client key of each execution (getClientIP)
    lastRL,           \* the admission decision of the last step, if any
    created,          \* per client, the tick its bucket was created at
    burst             \* per client, the decisions taken while no whole second
                      \* has passed since the bucket's creation

rlVars == << capacity, refillRate, buckets, rlNow, rlpc, rlClient, lastRL,
             created, burst >>

VARIABLES
    spacing,          \* ticks between two requests of the steady stream (0: no stream)
    admits,           \* the ticks at which a request of the stream was admitted
    rejects,          \* the ticks at which a request of the stream got 429
    credited,         \* the tokens the refills of the stream's bucket have computed
    clipped           \* a refill of the stream's bucket has saturated at capacity

streamVars == << spacing, admits, rejects, credited, clipped >>

VARIABLES
    pipe,             \* position of each execution of the assembled handler
    gauge,            \* metrics: requests in flight
    recorded          \* metrics: requests counted, per status

pipeVars == << pipe, gauge, recorded >>

VARIABLES
    mainPc,           \* position of the main goroutine
    startPc,          \* position of the goroutine that runs Server.Start
    startErr,         \* what Server.Start returned
    ctxDone,          \* main's context has been cancelled
    listenFailed,     \* ListenAndServe has failed and sent its error
    accepting,        \* the listener is open
    inflight,         \* requests the HTTP server is serving
    waited,           \* ticks since Server.Shutdown was called
    shutdownRet,      \* what Server.Shutdown returned
    exit              \* exit status of the process, -1 while it runs

lifeVars == << mainPc, startPc, startErr, ctxDone, listenFailed, accepting,
               inflight, waited, shutdownRet, exit >>

VARIABLES
    loopPc,           \* position of the goroutine that runs startHealthChecks
    probes,           \* per execution of performHealthChecks, per pool entry,
                      \* the position of its probe goroutine
    lastVerdict,      \* per pool entry, the verdict of its last completed probe
    lastProbe         \* the probe answered by the last step, if any

healthVars == << loopPc, probes, lastVerdict, lastProbe >>

\* the server's lifecycle and its background work
bgVars == << lifeVars, healthVars >>

vars == << lbVars, cacheVars, rlVars, streamVars, pipeVars, bgVars >>

\* what the actions of one component leave alone
nonLbVars == << cacheVars, rlVars, streamVars, pipeVars, bgVars >>
nonCacheVars == << lbVars, rlVars, streamVars, pipeVars, bgVars >>
nonRlVars == << lbVars, cacheVars, pipeVars, bgVars >>
nonBgVars == << lbVars, cacheVars, rlVars, streamVars, pipeVars >>

N == Len(urls)
Pool == 1..N

NoRet == [kind |-> "none", idx |-> 0, err |-> ErrNone, dirty |-> FALSE]
NoScan == [pos |-> 0, selected |-> 0, min |-> -1, dirty |-> FALSE]

Abs(x) == IF x < 0 THEN -x ELSE x

\* ------------------------------------------------------------ HTTPBackend
\* NewHTTPBackend / SetWeight: weights <= 0 become 1.
CoerceWeightNegativeOnly(w) == IF w < 0 THEN 1 ELSE w

CoerceWeight(w) == IF w <= 0 THEN 1 ELSE w

\* Position of the first backend whose URL is url, 0 when there is none
\* (the linear scans of UpdateBackendHealth / UpdateBackendWeight).
RECURSIVE FindFrom(_, _, _)
FindFrom(us, url, i) ==
    IF i > Len(us) THEN 0
    ELSE IF us[i] = url THEN i
    ELSE FindFrom(us, url, i + 1)

FindBackend(us, url) == FindFrom(us, url, 1)

\* ------------------------------------------------------------ round-robin
\* The for-loop of RoundRobinBalancer.SelectBackend, entered with
\* rb.current = cur and the remembered start.
RECURSIVE RRLoop(_, _, _)
RRLoop(h, cur, start) ==
    LET next == (cur % Len(h)) + 1
    IN  IF h[cur] THEN [idx |-> cur, current |-> next, err |-> ErrNone]
        ELSE IF next = start THEN [idx |-> 0, current |-> next, err |-> ErrNoHealthy]
        ELSE RRLoop(h, next, start)

RRSelectNoHealthCheck(h, cur) ==
    IF Len(h) = 0 THEN [idx |-> 0, current |-> cur, err |-> ErrNoBackends]
    ELSE [idx |-> cur, current |-> (cur % Len(h)) + 1, err |-> ErrNone]

RRSelectStickyOnSuccess(h, cur) ==
    IF Len(h) = 0 THEN [idx |-> 0, current |-> cur, err |-> ErrNoBackends]
    ELSE LET r == RRLoop(h, cur, cur)
         IN  IF r.err = ErrNone THEN [r EXCEPT !.current = r.idx] ELSE r

RRSelectFromFirst(h, cur) ==
    IF Len(h) = 0 THEN [idx |-> 0, current |-> cur, err |-> ErrNoBackends]
    ELSE RRLoop(h, 1, 1)

RRSelect(h, cur) ==
    IF Len(h) = 0 THEN [idx |-> 0, current |-> cur, err |-> ErrNoBackends]
    ELSE RRLoop(h, cur, cur)

\* --------------------------------------------------- weighted round-robin
\* First loop of WeightedRoundRobinBalancer.SelectBackend from position i on:
\* adds the weight of each healthy backend and tracks the maximum.
RECURSIVE WRRAddLoop(_, _, _, _, _, _)
WRRAddLoop(h, w, cw, i, selectedIndex, maxCurrentWeight) ==
    IF i > Len(h) THEN [cw |-> cw, selectedIndex |-> selectedIndex]
    ELSE IF ~h[i] THEN WRRAddLoop(h, w, cw, i + 1, selectedIndex, maxCurrentWeight)
    ELSE LET cw2 == [cw EXCEPT ![i] = cw[i] + w[i]]
         IN  IF cw2[i] > maxCurrentWeight
             THEN WRRAddLoop(h, w, cw2, i + 1, i, cw2[i])
             ELSE WRRAddLoop(h, w, cw2, i + 1, selectedIndex, maxCurrentWeight)

\* Second loop: total weight of the healthy backends.
RECURSIVE TotalWeightFrom(_, _, _)
TotalWeightFrom(h, w, i) ==
    IF i > Len(h) THEN 0
    ELSE (IF h[i] THEN w[i] ELSE 0) + TotalWeightFrom(h, w, i + 1)

TotalWeight(h, w) == TotalWeightFrom(h, w, 1)

WRRSelectSubtractOwnWeight(h, w, cw) ==
    IF Len(h) = 0 THEN [idx |-> 0, cw |-> cw, err |-> ErrNoBackends]
    ELSE LET a == WRRAddLoop(h, w, cw, 1, 0, -1)
         IN  IF a.selectedIndex = 0
             THEN [idx |-> 0, cw |-> a.cw, err |-> ErrNoHealthy]
             ELSE [idx |-> a.selectedIndex,
                   cw |-> [a.cw EXCEPT ![a.selectedIndex] = @ - w[a.selectedIndex]],
                   err |-> ErrNone]

WRRSelect(h, w, cw) ==
    IF Len(h) = 0 THEN [idx |-> 0, cw |-> cw, err |-> ErrNoBackends]
    ELSE LET a == WRRAddLoop(h, w, cw, 1, 0, -1)
         IN  IF a.selectedIndex = 0
             THEN [idx |-> 0, cw |-> a.cw, err |-> ErrNoHealthy]
             ELSE [idx |-> a.selectedIndex,
                   cw |-> [a.cw EXCEPT ![a.selectedIndex] = @ - TotalWeight(h, w)],
                   err |-> ErrNone]

\* ------------------------------------------------------ least-connections
\* One iteration of the scan loop of LeastConnectionsBalancer.SelectBackend:
\* s are the locals, i the position examined, c the counter value read.
LCVisitPickMax(s, i, isHealthy, c) ==
    IF ~isHealthy THEN [s EXCEPT !.pos = i + 1]
    ELSE IF s.min = -1 \/ c > s.min
         THEN [s EXCEPT !.pos = i + 1, !.selected = i, !.min = c]
         ELSE [s EXCEPT !.pos = i + 1]

LCVisitLastMinimum(s, i, isHealthy, c) ==
    IF ~isHealthy THEN [s EXCEPT !.pos = i + 1]
    ELSE IF s.min = -1 \/ c <= s.min
         THEN [s EXCEPT !.pos = i + 1, !.selected = i, !.min = c]
         ELSE [s EXCEPT !.pos = i + 1]

LCVisit(s, i, isHealthy, c) ==
    IF ~isHealthy THEN [s EXCEPT !.pos = i + 1]
    ELSE IF s.min = -1 \/ c < s.min
         THEN [s EXCEPT !.pos = i + 1, !.selected = i, !.min = c]
         ELSE [s EXCEPT !.pos = i + 1]

\* ------------------------------------------------------- history keeping
AllHealthy(h) == \A i \in 1..Len(h) : h[i]

\* Round-robin: a sliding window of the last MaxHist results of the current
\* all-healthy period.  Weighted: the first MaxHist results since construction,
\* recorded while no health or weight update has changed anything.
RecordSelection(idx) ==
    IF algorithm = RoundRobin
    THEN IF idx # 0 /\ AllHealthy(healthy)
         THEN IF Len(history) < MaxHist THEN Append(history, idx)
              ELSE Append(Tail(history), idx)
         ELSE << >>
    ELSE IF algorithm = WeightedRoundRobin /\ pristine /\ idx # 0
            /\ Len(history) < MaxHist
         THEN Append(history, idx)
         ELSE history

Ret(idx, err, dirty) == [kind |-> "ret", idx |-> idx, err |-> err, dirty |-> dirty]

\* What proxyHandler does with the result of SelectBackend: on an error it
\* answers 503 and returns, otherwise it forwards through a fresh ReverseProxy.
\* It does not touch the backend's connection counter.
\* The direct caller just gets the result.
Dispatch(c, idx, err) ==
    /\ pc' = [pc EXCEPT ![c] = IF c # ApiCaller /\ err = ErrNone
                               THEN "forwarding" ELSE "idle"]
    /\ sel' = [sel EXCEPT ![c] = IF c # ApiCaller /\ err = ErrNone THEN idx ELSE 0]
    /\ UNCHANGED connections

\* ------------------------------------------------------------ initial state
InitLB ==
    /\ algorithm \in Algorithms
    /\ \E cfg \in PoolConfigs :
         /\ urls = [i \in 1..Len(cfg) |-> cfg[i].url]
         /\ weight = [i \in 1..Len(cfg) |-> CoerceWeight(cfg[i].weight)]
         /\ healthy = [i \in 1..Len(cfg) |-> TRUE]
         /\ connections = [i \in 1..Len(cfg) |-> 0]
         /\ currentWeights = [i \in 1..Len(cfg) |-> 0]
         /\ serving = [i \in 1..Len(cfg) |-> 0]
    /\ current = 1
    /\ pc = [c \in Callers |-> "idle"]
    /\ sel = [c \in Callers |-> 0]
    /\ scan = [c \in Callers |-> NoScan]
    /\ lastRet = NoRet
    /\ history = << >>
    /\ pristine = TRUE

\* ------------------------------------------------------------------ actions
\* proxyHandler over RoundRobinBalancer.SelectBackend (one critical section).
RRSelectBackend(c) ==
    /\ algorithm = RoundRobin
    /\ pc[c] = "idle"
    /\ LET r == RRSelect(healthy, current)
       IN  /\ current' = r.current
           /\ lastRet' = Ret(r.idx, r.err, FALSE)
           /\ history' = RecordSelection(r.idx)
           /\ Dispatch(c, r.idx, r.err)
    /\ UNCHANGED nonLbVars
    /\ UNCHANGED << algorithm, urls, healthy, weight, currentWeights, scan,
                    serving, pristine >>

\* proxyHandler over WeightedRoundRobinBalancer.SelectBackend.
WRRSelectBackend(c) ==
    /\ algorithm = WeightedRoundRobin
    /\ pc[c] = "idle"
    /\ LET r == WRRSelect(healthy, weight, currentWeights)
       IN  /\ \A i \in Pool : Abs(r.cw[i]) <= MaxCW
           /\ currentWeights' = r.cw
           /\ lastRet' = Ret(r.idx, r.err, FALSE)
           /\ history' = RecordSelection(r.idx)
           /\ Dispatch(c, r.idx, r.err)
    /\ UNCHANGED nonLbVars
    /\ UNCHANGED << algorithm, urls, healthy, weight, current, scan,
                    serving, pristine >>

\* LeastConnectionsBalancer.SelectBackend: takes the read lock; an empty pool
\* returns at once, otherwise the scan starts.
LCBegin(c) ==
    /\ algorithm = LeastConnections
    /\ pc[c] = "idle"
    /\ IF N = 0
       THEN /\ lastRet' = Ret(0, ErrNoBackends, FALSE)
            /\ Dispatch(c, 0, ErrNoBackends)
            /\ UNCHANGED scan
       ELSE /\ pc' = [pc EXCEPT ![c] = "scan"]
            /\ scan' = [scan EXCEPT ![c] = [NoScan EXCEPT !.pos = 1]]
            /\ lastRet' = NoRet
            /\ UNCHANGED << sel, connections >>
    /\ UNCHANGED nonLbVars
    /\ UNCHANGED << algorithm, urls, healthy, weight, current, currentWeights,
                    serving, history, pristine >>

\* One iteration of the scan: IsHealthy, then an atomic load of the counter.
LCStep(c) ==
    /\ pc[c] = "scan"
    /\ scan[c].pos <= N
    /\ scan' = [scan EXCEPT ![c] =
                  LCVisit(scan[c], scan[c].pos, healthy[scan[c].pos],
                          connections[scan[c].pos])]
    /\ lastRet' = NoRet
    /\ UNCHANGED nonLbVars
    /\ UNCHANGED << algorithm, urls, healthy, weight, connections, current,
                    currentWeights, pc, sel, serving, history, pristine >>

\* End of the scan: the nil check and the return (read lock released).
LCReturn(c) ==
    /\ pc[c] = "scan"
    /\ scan[c].pos > N
    /\ LET err == IF scan[c].selected = 0 THEN ErrNoHealthy ELSE ErrNone
       IN  /\ lastRet' = Ret(scan[c].selected, err, scan[c].dirty)
           /\ Dispatch(c, scan[c].selected, err)
    /\ scan' = [scan EXCEPT ![c] = NoScan]
    /\ UNCHANGED nonLbVars
    /\ UNCHANGED << algorithm, urls, healthy, weight, current, currentWeights,
                    serving, history, pristine >>

\* The reverse proxy of a dispatched request finishes (response copied, or
\* ErrorHandler answered 502).
ProxyComplete(c) ==
    /\ pc[c] = "forwarding"
    /\ pc' = [pc EXCEPT ![c] = "idle"]
    /\ sel' = [sel EXCEPT ![c] = 0]
    /\ lastRet' = NoRet
    /\ UNCHANGED nonLbVars
    /\ UNCHANGED << algorithm, urls, healthy, weight, connections, current,
                    currentWeights, scan, serving, history, pristine >>

\* UpdateBackendHealth of the three balancers (write lock: excludes a running
\* least-connections scan, which holds the read lock).
SetHealthByURL(url, flag) ==
    /\ \A c \in Callers : pc[c] # "scan"
    /\ LET i == FindBackend(urls, url)
       IN  healthy' = IF i = 0 THEN healthy ELSE [healthy EXCEPT ![i] = flag]
    /\ pristine' = (pristine /\ healthy' = healthy)
    /\ history' = IF healthy' = healthy THEN history ELSE << >>
    /\ lastRet' = NoRet
    /\ UNCHANGED << algorithm, urls, weight, connections, current,
                    currentWeights, pc, sel, scan, serving >>

\* a call from outside the health loop
UpdateBackendHealth(url, flag) ==
    /\ SetHealthByURL(url, flag)
    /\ UNCHANGED nonLbVars

\* WeightedRoundRobinBalancer.UpdateBackendWeight -> HTTPBackend.SetWeight.
UpdateBackendWeight(url, w) ==
    /\ algorithm = WeightedRoundRobin
    /\ LET i == FindBackend(urls, url)
       IN  weight' = IF i = 0 THEN weight
                     ELSE [weight EXCEPT ![i] = CoerceWeight(w)]
    /\ pristine' = (pristine /\ weight' = weight)
    /\ history' = IF weight' = weight THEN history ELSE << >>
    /\ lastRet' = NoRet
    /\ UNCHANGED nonLbVars
    /\ UNCHANGED << algorithm, urls, healthy, connections, current,
                    currentWeights, pc, sel, scan, serving >>

\* A scan in progress has seen a counter change under it.
MarkDirty == [c \in Callers |->
                IF pc[c] = "scan" THEN [scan[c] EXCEPT !.dirty = TRUE] ELSE scan[c]]

\* HTTPBackend.ServeHTTP called on backend b: IncrementConnections on entry.
BackendServeHTTPEnter(b) ==
    /\ serving[b] < MaxServe
    /\ connections' = [connections EXCEPT ![b] = @ + 1]
    /\ serving' = [serving EXCEPT ![b] = @ + 1]
    /\ scan' = MarkDirty
    /\ lastRet' = NoRet
    /\ UNCHANGED nonLbVars
    /\ UNCHANGED << algorithm, urls, healthy, weight, current, currentWeights,
                    pc, sel, history, pristine >>

\* How a call of HTTPBackend.ServeHTTP ends: client.Do failed and 502 was
\* answered, or the response was streamed to its end.
ExitPaths == {"badgateway", "completed"}

BackendServeHTTPExitNoDefer(b, path) ==
    /\ serving[b] > 0
    /\ connections' = IF path = "badgateway" THEN connections
                      ELSE [connections EXCEPT ![b] = @ - 1]
    /\ serving' = [serving EXCEPT ![b] = @ - 1]
    /\ scan' = MarkDirty
    /\ lastRet' = NoRet
    /\ UNCHANGED nonLbVars
    /\ UNCHANGED << algorithm, urls, healthy, weight, current, currentWeights,
                    pc, sel, history, pristine >>

\* HTTPBackend.ServeHTTP returns, on either path: the deferred
\* DecrementConnections runs.
BackendServeHTTPExit(b, path) ==
    /\ serving[b] > 0
    /\ connections' = [connections EXCEPT ![b] = @ - 1]
    /\ serving' = [serving EXCEPT ![b] = @ - 1]
    /\ scan' = MarkDirty
    /\ lastRet' = NoRet
    /\ UNCHANGED nonLbVars
    /\ UNCHANGED << algorithm, urls, healthy, weight, current, currentWeights,
                    pc, sel, history, pristine >>

\* ================================================================== cache
\* ---- requests and responses
MethodGet == "GET"
Methods == {MethodGet, "POST"}

\* The GET requests served: URL, Accept and Accept-Encoding.
GetRequests ==
    { [url |-> "/a", accept |-> "", acceptEncoding |-> ""],
      [url |-> "/a", accept |-> "j", acceptEncoding |-> ""],
      [url |-> "/b", accept |-> "", acceptEncoding |-> ""] }

\* Cache.generateCacheKey: the MD5 digest of "url|accept|accept-encoding",
\* taken as injective on the formatted string.
generateCacheKey(r) == r.url \o "|" \o r.accept \o "|" \o r.acceptEncoding

Keys == { generateCacheKey(r) : r \in GetRequests }

HeaderNames == {"Content-Type", "X-RateLimit-Limit", "X-Cache-Status"}
NoHeaders == [h \in HeaderNames |-> << >>]

\* http.Header.Set / Add
HeaderSet(hdr, name, v) == [hdr EXCEPT ![name] = << v >>]
HeaderAdd(hdr, name, v) == [hdr EXCEPT ![name] = Append(@, v)]

\* The header map of the ResponseWriter the cache middleware is handed:
\* empty when the middleware runs alone; behind the rate limiter,
\* RateLimiter.Wrap has already set X-RateLimit-Limit on it.
PresetHeaders ==
    IF inPipeline THEN HeaderSet(NoHeaders, "X-RateLimit-Limit", "cap")
    ELSE NoHeaders

\* What a downstream handler may do: the headers it adds, whether it calls
\* WriteHeader itself (explicit) or lets the first Write imply 200, its body.
DownstreamBehaviours ==
    { [explicit |-> TRUE, status |-> 201, ctype |-> << "t", "u" >>, body |-> "made"],
      [explicit |-> TRUE, status |-> 502, ctype |-> << >>, body |-> "Backend server error"],
      [explicit |-> FALSE, status |-> 200, ctype |-> << >>, body |-> "plain"] }

NoResponse == [status |-> 0, headers |-> NoHeaders, body |-> ""]
NoEntry == [Body |-> "", Headers |-> NoHeaders, StatusCode |-> 0, ExpiresAt |-> -1]

RECURSIVE AddAll(_, _, _)
\* w.Header().Add(name, v) for each v of vs, in order
AddAll(hdr, name, vs) ==
    IF vs = << >> THEN hdr
    ELSE AddAll(HeaderAdd(hdr, name, Head(vs)), name, Tail(vs))

\* Header map of the underlying writer once the handler has added its headers.
HeadersAfterHandler(d) == AddAll(PresetHeaders, "Content-Type", d.ctype)

\* What the client receives on a miss: responseWriter passes everything through.
ClientResponse(d) ==
    [status |-> d.status, headers |-> HeadersAfterHandler(d), body |-> d.body]

\* responseWriter.WriteHeader / Write: what the wrapper has captured when the
\* handler returns.  statusCode and headers are set by WriteHeader only.
Captured(d) ==
    [statusCode |-> IF d.explicit THEN d.status ELSE 0,
     headers |-> IF d.explicit THEN HeadersAfterHandler(d) ELSE NoHeaders,
     body |-> d.body]

\* CacheEntry.IsExpired: time.Now().After(ExpiresAt)
IsExpired(e, t) == t > e.ExpiresAt

\* Cache.serveFromCache on a writer whose header map is hdr.
RECURSIVE CopyHeaders(_, _, _)
CopyHeaders(hdr, cached, names) ==
    IF names = {} THEN hdr
    ELSE LET name == CHOOSE x \in names : TRUE
         IN  CopyHeaders(AddAll(hdr, name, cached[name]), cached, names \ {name})

serveFromCacheNoCopy(hdr, e) ==
    [status |-> e.StatusCode,
     headers |-> HeaderSet(hdr, "X-Cache-Status", "HIT"),
     body |-> e.Body]

serveFromCache(hdr, e) ==
    [status |-> e.StatusCode,
     headers |-> HeaderSet(CopyHeaders(hdr, e.Headers, HeaderNames),
                           "X-Cache-Status", "HIT"),
     body |-> e.Body]

\* ---- the recency list
\* Cells of the heap: the two dummy nodes, the nil pointer, the real nodes.
HEAD == 0
TAIL == -1
NIL == -2
NoKey == ""
NodeIds == 1..(MaxCacheSize + 1)
Cells == {HEAD, TAIL} \cup NodeIds

\* The list as a record of its two pointer maps.
List == [nxt |-> nxt, prv |-> prv]

\* Cache.removeNode
removeNode(L, n) ==
    [nxt |-> [L.nxt EXCEPT ![L.prv[n]] = L.nxt[n]],
     prv |-> [L.prv EXCEPT ![L.nxt[n]] = L.prv[n]]]

\* Cache.addToFront
addToFront(L, n) ==
    LET first == L.nxt[HEAD]
    IN  [nxt |-> [L.nxt EXCEPT ![n] = first, ![HEAD] = n],
         prv |-> [L.prv EXCEPT ![n] = HEAD, ![first] = n]]

\* Cache.moveToFront
moveToFront(L, n) == addToFront(removeNode(L, n), n)

\* A node nothing refers to any more is garbage; its fields are cleared so
\* that the identifier can be handed out again by the allocator.
Release(L, n) ==
    [nxt |-> [L.nxt EXCEPT ![n] = NIL], prv |-> [L.prv EXCEPT ![n] = NIL]]

FreeNodes == { n \in NodeIds : nkey[n] = NoKey }
\* &cacheNode{...}: a fresh node
NewNode == CHOOSE n \in FreeNodes : \A m \in FreeNodes : n <= m

RemoveKey(f, k) == [x \in (DOMAIN f) \ {k} |-> f[x]]
PutKey(f, k, v) == [x \in (DOMAIN f) \cup {k} |-> IF x = k THEN v ELSE f[x]]

\* ---- Cache.get: the state after the call and the entry returned (NoEntry for nil)
get(key) ==
    IF key \notin DOMAIN entries
    THEN [entries |-> entries, L |-> List, nkey |-> nkey, nentry |-> nentry,
          size |-> currentSize, entry |-> NoEntry, removed |-> {}]
    ELSE LET node == entries[key]
         IN  IF IsExpired(nentry[node], now)
             THEN [entries |-> RemoveKey(entries, key),
                   L |-> Release(removeNode(List, node), node),
                   nkey |-> [nkey EXCEPT ![node] = NoKey],
                   nentry |-> [nentry EXCEPT ![node] = NoEntry],
                   size |-> currentSize - 1, entry |-> NoEntry, removed |-> {key}]
             ELSE [entries |-> entries, L |-> moveToFront(List, node),
                   nkey |-> nkey, nentry |-> nentry,
                   size |-> currentSize, entry |-> nentry[node], removed |-> {}]

\* ---- Cache.evictLRU on the state st (only called with a non-empty list)
evictMRU(st) ==
    LET lru == st.L.nxt[HEAD]
    IN  [entries |-> RemoveKey(st.entries, st.nkey[lru]),
         L |-> Release(removeNode(st.L, lru), lru),
         nkey |-> [st.nkey EXCEPT ![lru] = NoKey],
         nentry |-> [st.nentry EXCEPT ![lru] = NoEntry],
         size |-> st.size - 1, removed |-> {st.nkey[lru]}]

evictLRU(st) ==
    LET lru == st.L.prv[TAIL]
    IN  [entries |-> RemoveKey(st.entries, st.nkey[lru]),
         L |-> Release(removeNode(st.L, lru), lru),
         nkey |-> [st.nkey EXCEPT ![lru] = NoKey],
         nentry |-> [st.nentry EXCEPT ![lru] = NoEntry],
         size |-> st.size - 1, removed |-> {st.nkey[lru]}]

\* ---- Cache.set: the state after the call
setNoEvict(key, entry) ==
    IF key \in DOMAIN entries
    THEN [entries |-> entries, L |-> moveToFront(List, entries[key]),
          nkey |-> nkey, nentry |-> [nentry EXCEPT ![entries[key]] = entry],
          size |-> currentSize, removed |-> {}]
    ELSE LET node == NewNode
         IN  [entries |-> PutKey(entries, key, node),
              L |-> addToFront(List, node),
              nkey |-> [nkey EXCEPT ![node] = key],
              nentry |-> [nentry EXCEPT ![node] = entry],
              size |-> currentSize + 1, removed |-> {}]

setCountOnly(key, entry) ==
    IF key \in DOMAIN entries
    THEN [entries |-> entries, L |-> moveToFront(List, entries[key]),
          nkey |-> nkey, nentry |-> [nentry EXCEPT ![entries[key]] = entry],
          size |-> currentSize + 1, removed |-> {}]
    ELSE LET node == NewNode
             added == [entries |-> PutKey(entries, key, node),
                       L |-> addToFront(List, node),
                       nkey |-> [nkey EXCEPT ![node] = key],
                       nentry |-> [nentry EXCEPT ![node] = entry],
                       size |-> currentSize + 1, removed |-> {}]
         IN  IF added.size > maxSize THEN evictLRU(added) ELSE added

set(key, entry) ==
    IF key \in DOMAIN entries
    THEN [entries |-> entries, L |-> moveToFront(List, entries[key]),
          nkey |-> nkey, nentry |-> [nentry EXCEPT ![entries[key]] = entry],
          size |-> currentSize, removed |-> {}]
    ELSE LET node == NewNode
             added == [entries |-> PutKey(entries, key, node),
                       L |-> addToFront(List, node),
                       nkey |-> [nkey EXCEPT ![node] = key],
                       nentry |-> [nentry EXCEPT ![node] = entry],
                       size |-> currentSize + 1, removed |-> {}]
         IN  IF added.size > maxSize THEN evictLRU(added) ELSE added

\* ---- bookkeeping of the cache claims
\* lastServe describes the request step just taken: resp is the response
\* written by serveFromCache (HIT) or by the handler (MISS, BYPASS), origin the response the client of the
\* storing miss received, expiresAt the ExpiresAt of the entry the lookup
\* found in the map (or of the entry the miss stored), -1 when there is none,
\* lru the least recently accessed key when the miss stored a new key beyond
\* maxSize entries.
NoServe == [kind |-> "none", key |-> "", resp |-> NoResponse, origin |-> NoResponse,
            owed |-> FALSE, invoked |-> FALSE, stored |-> "none", removed |-> {},
            expiresAt |-> -1, lru |-> NoKey]

\* The access order without the keys ks, and with key k as the latest access.
Without(seq, ks) == SelectSeq(seq, LAMBDA x : x \notin ks)
Touch(seq, k) == << k >> \o Without(seq, {k})

Is2xx(code) == code >= 200 /\ code < 300

\* A completed 2xx GET for key still owes hits: its entry would not have expired.
Owed(key) == promised[key] >= 0 /\ now < promised[key]

Forget(f, ks, blank) == [k \in DOMAIN f |-> IF k \in ks THEN blank ELSE f[k]]

RECURSIVE SumOver(_, _)
SumOver(f, ks) ==
    IF ks = {} THEN 0
    ELSE LET k == CHOOSE x \in ks : TRUE IN f[k] + SumOver(f, ks \ {k})

\* Executions of the middleware that are waiting for their handler.
InsideWrap == SumOver(pending, Keys)

\* ---- initial states
CacheConfigured ==
    /\ maxSize \in 0..MaxCacheSize
    /\ inPipeline \in BOOLEAN

CacheEmpty ==
    /\ entries = << >>
    /\ nxt = [c \in Cells |-> IF c = HEAD THEN TAIL ELSE NIL]
    /\ prv = [c \in Cells |-> IF c = TAIL THEN HEAD ELSE NIL]
    /\ nkey = [n \in NodeIds |-> NoKey]
    /\ nentry = [n \in NodeIds |-> NoEntry]
    /\ currentSize = 0
    /\ now = 0
    /\ pending = [k \in Keys |-> 0]
    /\ lastServe = NoServe
    /\ origin = [k \in Keys |-> NoResponse]
    /\ promised = [k \in Keys |-> -1]
    /\ recency = << >>

\* NewCache
InitCache == CacheConfigured /\ CacheEmpty

\* ---- actions
\* Cache.Wrap, GET: key, Cache.get, and on a hit serveFromCache and return;
\* on a miss the handler is about to be called through the wrapper.
CacheLookup(r) ==
    /\ InsideWrap < MaxCacheReq
    /\ LET key == generateCacheKey(r)
           g == get(key)
           hit == g.entry # NoEntry
       IN  /\ entries' = g.entries
           /\ nxt' = g.L.nxt
           /\ prv' = g.L.prv
           /\ nkey' = g.nkey
           /\ nentry' = g.nentry
           /\ currentSize' = g.size
           /\ origin' = Forget(origin, g.removed, NoResponse)
           /\ promised' = Forget(promised, g.removed, -1)
           /\ pending' = [pending EXCEPT ![key] = IF hit THEN @ ELSE @ + 1]
           /\ lastServe' =
                [kind |-> IF hit THEN "HIT" ELSE "LOOKUP-MISS",
                 key |-> key,
                 resp |-> IF hit THEN serveFromCache(PresetHeaders, g.entry) ELSE NoResponse,
                 origin |-> origin[key],
                 owed |-> Owed(key),
                 invoked |-> FALSE,
                 stored |-> "none",
                 removed |-> g.removed,
                 expiresAt |-> IF key \in DOMAIN entries
                               THEN nentry[entries[key]].ExpiresAt ELSE -1,
                 lru |-> NoKey]
           /\ recency' = IF hit THEN Touch(recency, key)
                         ELSE Without(recency, g.removed)
    /\ UNCHANGED << maxSize, inPipeline, now >>
    /\ UNCHANGED nonCacheVars

\* Cache.Wrap after a miss: the handler, behaving as d, returns; the client has
\* its response; a captured 2xx status makes Cache.set store the entry.
\* In the assembled pipeline the handler is proxyHandler behind the metrics
\* recorder, and every path of it (http.Error, ReverseProxy) calls WriteHeader.
CacheMissComplete(key, d) ==
    /\ pending[key] > 0
    /\ inPipeline => d.explicit
    /\ LET cap == Captured(d)
           store == Is2xx(cap.statusCode)
           entry == [Body |-> cap.body, Headers |-> cap.headers,
                     StatusCode |-> cap.statusCode, ExpiresAt |-> now + TTLTicks]
           st == IF store THEN set(key, entry)
                 ELSE [entries |-> entries, L |-> List, nkey |-> nkey,
                       nentry |-> nentry, size |-> currentSize, removed |-> {}]
           resp == ClientResponse(d)
           kept == store /\ key \notin st.removed
       IN  /\ entries' = st.entries
           /\ nxt' = st.L.nxt
           /\ prv' = st.L.prv
           /\ nkey' = st.nkey
           /\ nentry' = st.nentry
           /\ currentSize' = st.size
           /\ origin' = [k \in Keys |->
                           IF k \in st.removed THEN NoResponse
                           ELSE IF k = key /\ store THEN resp ELSE origin[k]]
           /\ promised' = [k \in Keys |->
                             IF k \in st.removed THEN -1
                             ELSE IF k = key /\ Is2xx(resp.status) THEN now + TTLTicks
                             ELSE promised[k]]
           /\ lastServe' =
                [kind |-> "MISS", key |-> key, resp |-> resp, origin |-> NoResponse,
                 owed |-> FALSE, invoked |-> TRUE,
                 stored |-> IF ~store THEN "none"
                            ELSE IF key \in DOMAIN entries THEN "update" ELSE "insert",
                 removed |-> st.removed,
                 expiresAt |-> IF store THEN entry.ExpiresAt ELSE -1,
                 lru |-> IF store /\ key \notin DOMAIN entries
                            /\ Len(recency) + 1 > maxSize
                         THEN Touch(recency, key)[Len(recency) + 1]
                         ELSE NoKey]
           /\ recency' = IF store THEN Without(Touch(recency, key), st.removed)
                         ELSE recency
    /\ pending' = [pending EXCEPT ![key] = @ - 1]
    /\ UNCHANGED << maxSize, inPipeline, now >>
    /\ UNCHANGED nonCacheVars

\* Cache.Wrap, any other method: the handler is called with the caller's
\* writer and the cache is not consulted.
CacheBypassLookup(method, d) ==
    /\ InsideWrap < MaxCacheReq
    /\ method # MethodGet
    /\ inPipeline => d.explicit
    /\ LET g == get("/a||")
       IN  /\ entries' = g.entries
           /\ nxt' = g.L.nxt
           /\ prv' = g.L.prv
           /\ nkey' = g.nkey
           /\ nentry' = g.nentry
           /\ currentSize' = g.size
           /\ recency' = IF g.entry # NoEntry THEN Touch(recency, "/a||")
                         ELSE Without(recency, g.removed)
    /\ lastServe' = [NoServe EXCEPT !.kind = "BYPASS", !.invoked = TRUE,
                                    !.resp = ClientResponse(d)]
    /\ UNCHANGED << maxSize, inPipeline, now, pending, origin, promised >>
    /\ UNCHANGED nonCacheVars

CacheBypass(method, d) ==
    /\ InsideWrap < MaxCacheReq
    /\ method # MethodGet
    /\ inPipeline => d.explicit
    /\ lastServe' = [NoServe EXCEPT !.kind = "BYPASS", !.invoked = TRUE,
                                    !.resp = ClientResponse(d)]
    /\ UNCHANGED << maxSize, inPipeline, entries, nxt, prv, nkey, nentry,
                    currentSize, now, pending, origin, promised, recency >>
    /\ UNCHANGED nonCacheVars

\* The clock advances.
Tick ==
    /\ now < MaxTime
    /\ now' = now + 1
    /\ lastServe' = NoServe
    /\ promised' = [k \in Keys |-> IF now' < promised[k] THEN promised[k] ELSE -1]
    /\ UNCHANGED << maxSize, inPipeline, entries, nxt, prv, nkey, nentry,
                    currentSize, pending, origin, recency >>
    /\ UNCHANGED nonCacheVars

NextCache ==
    \/ \E r \in GetRequests : CacheLookup(r)
    \/ \E key \in Keys, d \in DownstreamBehaviours : CacheMissComplete(key, d)
    \/ \E m \in Methods, d \in DownstreamBehaviours : CacheBypass(m, d)
    \/ Tick

\* =========================================================== rate limiter
\* ---- time: the clock advances in ticks, TicksPerSecond of them to a second

\* int(elapsed.Seconds()): the whole seconds in a span of ticks
WholeSeconds(ticks) == ticks \div TicksPerSecond

\* ---- header values are strings, modelled as sequences of code points

\* the largest code point, and the replacement character
MaxRune == 1114111
RuneError == 65533
SurrogateMin == 55296
SurrogateMax == 57343

\* string(rune(n)): the one-character string of the code point n
RuneString(n) ==
    IF n < 0 \/ n > MaxRune \/ (n >= SurrogateMin /\ n <= SurrogateMax)
    THEN << RuneError >>
    ELSE << n >>

\* the literal "0" of the X-RateLimit-Remaining header
ZeroString == << 48 >>

StatusTooManyRequests == 429

RLHeaderNames == { "X-RateLimit-Limit", "X-RateLimit-Remaining" }
NoRLHeaders == [h \in RLHeaderNames |-> << >>]

\* http.Header.Set on the rate limiter's response
RLHeaderSet(hs, name, value) == [hs EXCEPT ![name] = << value >>]

\* ---- requests: the parts getClientIP reads. The value of X-Forwarded-For
\* is the sequence of its pieces: addresses, commas and blanks.
RLRequests ==
    { [xff |-> << >>,              xri |-> "",  remote |-> "a"],
      [xff |-> << "b", ",", "a" >>, xri |-> "a", remote |-> "a"],
      [xff |-> << >>,              xri |-> "b", remote |-> "a"] }

\* the same forwarded client, written with blanks around the address
SpacedRequests ==
    { [xff |-> << "b", " ", ",", " ", "a" >>, xri |-> "a", remote |-> "a"],
      [xff |-> << " ", "b" >>,                xri |-> "",  remote |-> "a"] }

KeyRequests == RLRequests \cup SpacedRequests

\* the string made of the pieces
RECURSIVE Join(_)
Join(ps) == IF ps = << >> THEN "" ELSE Head(ps) \o Join(Tail(ps))

\* the loop of getClientIP: the position of the first comma, or the length
RECURSIVE FirstComma(_, _)
FirstComma(ps, i) ==
    IF i > Len(ps) THEN Len(ps) + 1
    ELSE IF ps[i] = "," THEN i
    ELSE FirstComma(ps, i + 1)

getClientIP(r) ==
    IF r.xff # << >> THEN Join(SubSeq(r.xff, 1, FirstComma(r.xff, 1) - 1))
    ELSE IF r.xri # "" THEN r.xri
    ELSE r.remote

Clients == { getClientIP(r) : r \in KeyRequests }

\* ---- TokenBucket
NoBucket == [capacity |-> -1, tokens |-> -1, refillRate |-> -1, lastRefill |-> -1]

NewTokenBucket(cap, rate, t) ==
    [capacity |-> cap, tokens |-> cap, refillRate |-> rate, lastRefill |-> t]

\* the credit TokenBucket.refill computes at time t
TokensToAdd(tb, t) == WholeSeconds(t - tb.lastRefill) * tb.refillRate

\* refill without the saturation at capacity
refillNoCap(tb, t) ==
    LET tokensToAdd == WholeSeconds(t - tb.lastRefill) * tb.refillRate
    IN  IF tokensToAdd > 0
        THEN [tb EXCEPT !.tokens = @ + tokensToAdd, !.lastRefill = t]
        ELSE tb

\* TokenBucket.refill at time t
refill(tb, t) ==
    LET tokensToAdd == WholeSeconds(t - tb.lastRefill) * tb.refillRate
    IN  IF tokensToAdd > 0
        THEN [tb EXCEPT !.tokens = IF @ + tokensToAdd > tb.capacity
                                   THEN tb.capacity
                                   ELSE @ + tokensToAdd,
                        !.lastRefill = t]
        ELSE tb

\* TryConsume that wants more than the tokens it takes
TryConsumeStrict(tb, tokens, t) ==
    LET r == refill(tb, t)
    IN  IF r.tokens > tokens
        THEN [ok |-> TRUE, bucket |-> [r EXCEPT !.tokens = @ - tokens]]
        ELSE [ok |-> FALSE, bucket |-> r]

\* TryConsume that decrements on a refusal too
TryConsumeAlways(tb, tokens, t) ==
    LET r == refill(tb, t)
    IN  [ok |-> r.tokens >= tokens, bucket |-> [r EXCEPT !.tokens = @ - tokens]]

\* TokenBucket.TryConsume at time t: the result and the bucket after the call
TryConsume(tb, tokens, t) ==
    LET r == refill(tb, t)
    IN  IF r.tokens >= tokens
        THEN [ok |-> TRUE, bucket |-> [r EXCEPT !.tokens = @ - tokens]]
        ELSE [ok |-> FALSE, bucket |-> r]

\* ---- RateLimiter.Wrap: what it writes before it returns or calls next

ThrottleResponse(cap) ==
    [status  |-> StatusTooManyRequests,
     headers |-> RLHeaderSet(RLHeaderSet(NoRLHeaders,
                     "X-RateLimit-Limit", RuneString(cap)),
                     "X-RateLimit-Remaining", ZeroString),
     body    |-> "Rate limit exceeded"]

\* on admission only the limit header is set; status and body are the
\* downstream handler's
AdmitHeaders(cap) == RLHeaderSet(NoRLHeaders, "X-RateLimit-Limit", RuneString(cap))

\* ---- bookkeeping of the rate limiter claims
RLSlots == 1 .. MaxRLReq

NoRL ==
    [kind |-> "none", slot |-> 0, client |-> "", found |-> NoBucket,
     before |-> -1, after |-> -1, at |-> -1,
     status |-> 0, headers |-> NoRLHeaders, body |-> ""]

\* the decisions of a client's first second, MaxBurst of them at most
Record(seq, c, t, ok) ==
    IF WholeSeconds(t - created[c]) = 0 /\ Len(seq) < MaxBurst
    THEN Append(seq, ok)
    ELSE seq

\* ---- initial states
RLEmpty ==
    /\ buckets = [c \in Clients |-> NoBucket]
    /\ rlNow = 0
    /\ rlpc = [i \in RLSlots |-> "idle"]
    /\ rlClient = [i \in RLSlots |-> ""]
    /\ lastRL = NoRL
    /\ created = [c \in Clients |-> -1]
    /\ burst = [c \in Clients |-> << >>]

\* NewRateLimiter with a configuration of the modelled range
InitRL ==
    /\ capacity \in 0 .. MaxCapacity
    /\ refillRate \in 0 .. MaxRefillRate
    /\ RLEmpty

\* ---- actions

\* Wrap up to the fast path of getBucket: the client key, and the read-locked
\* lookup of its bucket
RLArrive(i, r) ==
    /\ rlpc[i] = "idle"
    /\ LET c == getClientIP(r)
       IN  /\ rlClient' = [rlClient EXCEPT ![i] = c]
           /\ rlpc' = [rlpc EXCEPT ![i] =
                         IF buckets[c] # NoBucket THEN "bucket" ELSE "create"]
    /\ lastRL' = NoRL
    /\ UNCHANGED << capacity, refillRate, buckets, rlNow, created, burst >>
    /\ UNCHANGED << nonRlVars, streamVars >>

\* the slow path without the second lookup
RLCreateNoRecheck(i) ==
    /\ rlpc[i] = "create"
    /\ LET c == rlClient[i]
       IN  /\ buckets' = [buckets EXCEPT ![c] =
                            NewTokenBucket(capacity, refillRate, rlNow)]
           /\ created' = [created EXCEPT ![c] = rlNow]
    /\ rlpc' = [rlpc EXCEPT ![i] = "bucket"]
    /\ lastRL' = [NoRL EXCEPT !.kind = "create", !.slot = i,
                              !.client = rlClient[i]]
    /\ UNCHANGED << capacity, refillRate, rlNow, rlClient, burst >>
    /\ UNCHANGED << nonRlVars, streamVars >>

\* the slow path of getBucket: write lock, second lookup, creation
RLCreate(i) ==
    /\ rlpc[i] = "create"
    /\ LET c == rlClient[i]
       IN  IF buckets[c] # NoBucket
           THEN UNCHANGED << buckets, created >>
           ELSE /\ buckets' = [buckets EXCEPT ![c] =
                                 NewTokenBucket(capacity, refillRate, rlNow)]
                /\ created' = [created EXCEPT ![c] = rlNow]
    /\ rlpc' = [rlpc EXCEPT ![i] = "bucket"]
    /\ lastRL' = [NoRL EXCEPT !.kind = "create", !.slot = i,
                              !.client = rlClient[i]]
    /\ UNCHANGED << capacity, refillRate, rlNow, rlClient, burst >>
    /\ UNCHANGED << nonRlVars, streamVars >>

\* TryConsume(1) under the bucket's mutex and what Wrap does with the result
TryConsumeStep(i) ==
    /\ rlpc[i] = "bucket"
    /\ LET c  == rlClient[i]
           tb == buckets[c]
           tc == TryConsume(tb, 1, rlNow)
           th == ThrottleResponse(capacity)
       IN  /\ buckets' = [buckets EXCEPT ![c] = tc.bucket]
           /\ burst' = [burst EXCEPT ![c] = Record(@, c, rlNow, tc.ok)]
           /\ IF tc.ok
              THEN /\ rlpc' = [rlpc EXCEPT ![i] = "next"]
                   /\ UNCHANGED rlClient
                   /\ lastRL' = [kind |-> "admit", slot |-> i, client |-> c,
                                 found |-> tb,
                                 before |-> refill(tb, rlNow).tokens,
                                 after |-> tc.bucket.tokens, at |-> rlNow,
                                 status |-> 0,
                                 headers |-> AdmitHeaders(capacity),
                                 body |-> ""]
              ELSE /\ rlpc' = [rlpc EXCEPT ![i] = "idle"]
                   /\ rlClient' = [rlClient EXCEPT ![i] = ""]
                   /\ lastRL' = [kind |-> "throttle", slot |-> i, client |-> c,
                                 found |-> tb,
                                 before |-> refill(tb, rlNow).tokens,
                                 after |-> tc.bucket.tokens, at |-> rlNow,
                                 status |-> th.status,
                                 headers |-> th.headers,
                                 body |-> th.body]
    /\ UNCHANGED << capacity, refillRate, rlNow, created >>
    /\ UNCHANGED nonRlVars

RLDecide(i) == TryConsumeStep(i) /\ UNCHANGED streamVars

\* next.ServeHTTP returns, and Wrap with it
RLNextReturn(i) ==
    /\ rlpc[i] = "next"
    /\ rlpc' = [rlpc EXCEPT ![i] = "idle"]
    /\ rlClient' = [rlClient EXCEPT ![i] = ""]
    /\ lastRL' = NoRL
    /\ UNCHANGED << capacity, refillRate, buckets, rlNow, created, burst >>
    /\ UNCHANGED << nonRlVars, streamVars >>

\* time passes
RLTick(limit) ==
    /\ rlNow < limit
    /\ rlNow' = rlNow + 1
    /\ lastRL' = NoRL
    /\ UNCHANGED << capacity, refillRate, buckets, rlpc, rlClient, created,
                    burst >>
    /\ UNCHANGED << nonRlVars, streamVars >>

\* =============================================================== pipeline
\* ---- Server.buildHandler

\* NewServer: the middleware slice, in its order
Middlewares == << "ratelimit", "cache", "metrics" >>

\* the layers of a handler, outermost first, after wrapping handler in mws[i],
\* mws[i-1], ..., mws[1]
RECURSIVE WrapDownFrom(_, _, _)
WrapDownFrom(mws, i, handler) ==
    IF i < 1 THEN handler
    ELSE WrapDownFrom(mws, i - 1, << mws[i] >> \o handler)

\* the same loop run from the first middleware to the last
RECURSIVE WrapUpFrom(_, _, _)
WrapUpFrom(mws, i, handler) ==
    IF i > Len(mws) THEN handler
    ELSE WrapUpFrom(mws, i + 1, << mws[i] >> \o handler)

buildHandlerFirstInnermost(mws) == WrapUpFrom(mws, 1, << "proxy" >>)

\* Server.buildHandler: proxyHandler wrapped by the middleware, last one first
buildHandler(mws) == WrapDownFrom(mws, Len(mws), << "proxy" >>)

\* the assembled handler
Chain == buildHandler(Middlewares)

\* ---- requests and what the layers write
PipeSlots == 1 .. MaxPipeReq

ByRemote == CHOOSE r \in RLRequests : r.xff = << >> /\ r.xri = ""
ByRealIP == CHOOSE r \in RLRequests : r.xff = << >> /\ r.xri # ""
PlainA == CHOOSE r \in GetRequests : r.url = "/a" /\ r.accept = ""
PlainB == CHOOSE r \in GetRequests : r.url = "/b"

PipeRequests ==
    { [method |-> MethodGet, get |-> PlainA, rl |-> ByRemote],
      [method |-> MethodGet, get |-> PlainB, rl |-> ByRealIP],
      [method |-> "POST",    get |-> PlainA, rl |-> ByRemote] }

\* RateLimiter.Wrap on a refusal, proxyHandler on a failed selection, and the
\* answers of the upstream as ReverseProxy passes them on
Throttled == [explicit |-> TRUE, status |-> 429, ctype |-> << >>,
              body |-> "Rate limit exceeded"]
Unavailable == [explicit |-> TRUE, status |-> 503, ctype |-> << "text/plain" >>,
                body |-> "No healthy backends available"]
NothingWritten == [explicit |-> FALSE, status |-> 0, ctype |-> << >>, body |-> ""]
BadGateway == [explicit |-> TRUE, status |-> 502, ctype |-> << "text/plain" >>,
               body |-> "Backend server error"]

\* what the round trip to the selected backend comes to: an answer, which
\* ReverseProxy copies to the client, or a transport error
UpstreamOutcomes ==
    { [kind |-> "answer", d |-> CHOOSE d \in DownstreamBehaviours :
                                    d.explicit /\ Is2xx(d.status)],
      [kind |-> "error", d |-> NothingWritten] }

\* ReverseProxy.ServeHTTP: one round trip, and ErrorHandler when it fails
ReverseProxyServe(o) == IF o.kind = "error" THEN BadGateway ELSE o.d

\* what serveFromCache writes, as the layers outside the cache see it
FromCache(e) == [explicit |-> TRUE, status |-> e.StatusCode,
                 ctype |-> e.Headers["Content-Type"], body |-> e.Body]

PipeStatuses == { 200, 201, 429, 502, 503 }

\* statusRecorder: the status of the last WriteHeader, 200 without one
statusRecorder(d) == IF d.explicit THEN d.status ELSE 200

\* ---- one execution of the assembled handler: how many layers it has
\* entered, whether it is on its way in or out, and what has happened
NoPipe == [active |-> FALSE, req |-> CHOOSE r \in PipeRequests : TRUE,
           depth |-> 0, dir |-> "down", trace |-> << >>, d |-> NothingWritten,
           miss |-> FALSE, stored |-> FALSE, throttled |-> FALSE,
           selects |-> 0, selectErr |-> ErrNone, tried |-> 0, outcome |-> "none"]

Entering(i, layer) ==
    /\ pipe[i].active
    /\ pipe[i].dir = "down"
    /\ pipe[i].depth < Len(Chain)
    /\ Chain[pipe[i].depth + 1] = layer

Leaving(i, layer) ==
    /\ pipe[i].active
    /\ pipe[i].dir = "up"
    /\ pipe[i].depth >= 1
    /\ Chain[pipe[i].depth] = layer

\* the layer has done its part and calls next.ServeHTTP
Descend(p, layer) ==
    [p EXCEPT !.depth = @ + 1, !.trace = Append(@, << layer, "pre" >>)]

\* the layer answers with d itself and returns without calling next
ShortCircuit(p, layer, d) ==
    [p EXCEPT !.dir = "up", !.d = d,
              !.trace = @ \o << << layer, "pre" >>, << layer, "post" >> >>]

\* next.ServeHTTP has returned, the layer does the rest of its part and returns
Ascend(p, layer) ==
    [p EXCEPT !.depth = @ - 1, !.trace = Append(@, << layer, "post" >>)]

\* ---- initial states
PipeIdle ==
    /\ pipe = [i \in PipeSlots |-> NoPipe]
    /\ gauge = 0
    /\ recorded = [s \in PipeStatuses |-> 0]

\* ---- actions

\* the server hands a request to the assembled handler
PipeAccept(i, req) ==
    /\ ~pipe[i].active
    /\ pipe' = [pipe EXCEPT ![i] = [NoPipe EXCEPT !.active = TRUE, !.req = req]]
    /\ UNCHANGED << gauge, recorded >>
    /\ UNCHANGED << lbVars, cacheVars, rlVars, streamVars, bgVars >>

\* RateLimiter.Wrap that calls next after it has written the 429
PipeRateLimitNoReturn(i) ==
    /\ Entering(i, "ratelimit")
    /\ LET c  == getClientIP(pipe[i].req.rl)
           tb == IF buckets[c] = NoBucket
                 THEN NewTokenBucket(capacity, refillRate, rlNow)
                 ELSE buckets[c]
           tc == TryConsume(tb, 1, rlNow)
       IN  /\ buckets' = [buckets EXCEPT ![c] = tc.bucket]
           /\ created' = IF buckets[c] = NoBucket
                         THEN [created EXCEPT ![c] = rlNow] ELSE created
           /\ pipe' = [pipe EXCEPT ![i] =
                         IF tc.ok THEN Descend(@, "ratelimit")
                         ELSE [Descend(@, "ratelimit")
                                 EXCEPT !.throttled = TRUE, !.d = Throttled]]
    /\ UNCHANGED << capacity, refillRate, rlNow, rlpc, rlClient, lastRL, burst >>
    /\ UNCHANGED << gauge, recorded >>
    /\ UNCHANGED << lbVars, cacheVars, streamVars, bgVars >>

\* RateLimiter.Wrap: bucket of the client, TryConsume(1), and either the 429
\* or the call of next
PipeRateLimit(i) ==
    /\ Entering(i, "ratelimit")
    /\ LET c  == getClientIP(pipe[i].req.rl)
           tb == IF buckets[c] = NoBucket
                 THEN NewTokenBucket(capacity, refillRate, rlNow)
                 ELSE buckets[c]
           tc == TryConsume(tb, 1, rlNow)
       IN  /\ buckets' = [buckets EXCEPT ![c] = tc.bucket]
           /\ created' = IF buckets[c] = NoBucket
                         THEN [created EXCEPT ![c] = rlNow] ELSE created
           /\ pipe' = [pipe EXCEPT ![i] =
                         IF tc.ok THEN Descend(@, "ratelimit")
                         ELSE [ShortCircuit(@, "ratelimit", Throttled)
                                 EXCEPT !.throttled = TRUE]]
    /\ UNCHANGED << capacity, refillRate, rlNow, rlpc, rlClient, lastRL, burst >>
    /\ UNCHANGED << gauge, recorded >>
    /\ UNCHANGED << lbVars, cacheVars, streamVars, bgVars >>

\* RateLimiter.Wrap returns after next
PipeRateLimitReturn(i) ==
    /\ Leaving(i, "ratelimit")
    /\ pipe' = [pipe EXCEPT ![i] = Ascend(@, "ratelimit")]
    /\ UNCHANGED << gauge, recorded >>
    /\ UNCHANGED << lbVars, cacheVars, rlVars, streamVars, bgVars >>

\* a Cache.Wrap that serves the hit and calls next as well
PipeCacheLookupServeAndForward(i) ==
    /\ Entering(i, "cache")
    /\ IF pipe[i].req.method # MethodGet
       THEN /\ pipe' = [pipe EXCEPT ![i] = Descend(@, "cache")]
            /\ UNCHANGED << entries, nxt, prv, nkey, nentry, currentSize, recency >>
       ELSE LET key == generateCacheKey(pipe[i].req.get)
                g == get(key)
                hit == g.entry # NoEntry
            IN  /\ entries' = g.entries
                /\ nxt' = g.L.nxt
                /\ prv' = g.L.prv
                /\ nkey' = g.nkey
                /\ nentry' = g.nentry
                /\ currentSize' = g.size
                /\ recency' = IF hit THEN Touch(recency, key)
                              ELSE Without(recency, g.removed)
                /\ pipe' = [pipe EXCEPT ![i] =
                              IF hit THEN [Descend(@, "cache") EXCEPT !.d = FromCache(g.entry)]
                              ELSE [Descend(@, "cache") EXCEPT !.miss = TRUE]]
    /\ UNCHANGED << maxSize, inPipeline, now, pending, lastServe, origin, promised >>
    /\ UNCHANGED << gauge, recorded >>
    /\ UNCHANGED << lbVars, rlVars, streamVars, bgVars >>

\* Cache.Wrap up to the call of next: a request that is not a GET goes on
\* untouched, a GET is looked up and served on a hit
PipeCacheLookup(i) ==
    /\ Entering(i, "cache")
    /\ IF pipe[i].req.method # MethodGet
       THEN /\ pipe' = [pipe EXCEPT ![i] = Descend(@, "cache")]
            /\ UNCHANGED << entries, nxt, prv, nkey, nentry, currentSize, recency >>
       ELSE LET key == generateCacheKey(pipe[i].req.get)
                g == get(key)
                hit == g.entry # NoEntry
            IN  /\ entries' = g.entries
                /\ nxt' = g.L.nxt
                /\ prv' = g.L.prv
                /\ nkey' = g.nkey
                /\ nentry' = g.nentry
                /\ currentSize' = g.size
                /\ recency' = IF hit THEN Touch(recency, key)
                              ELSE Without(recency, g.removed)
                /\ pipe' = [pipe EXCEPT ![i] =
                              IF hit THEN ShortCircuit(@, "cache", FromCache(g.entry))
                              ELSE [Descend(@, "cache") EXCEPT !.miss = TRUE]]
    /\ UNCHANGED << maxSize, inPipeline, now, pending, lastServe, origin, promised >>
    /\ UNCHANGED << gauge, recorded >>
    /\ UNCHANGED << lbVars, rlVars, streamVars, bgVars >>

\* Cache.Wrap after next has returned: a captured 2xx status of a missed GET
\* is stored
PipeCacheStore(i) ==
    /\ Leaving(i, "cache")
    /\ LET key == generateCacheKey(pipe[i].req.get)
           cap == Captured(pipe[i].d)
           store == pipe[i].miss /\ Is2xx(cap.statusCode)
           entry == [Body |-> cap.body, Headers |-> cap.headers,
                     StatusCode |-> cap.statusCode, ExpiresAt |-> now + TTLTicks]
           st == IF store THEN set(key, entry)
                 ELSE [entries |-> entries, L |-> List, nkey |-> nkey,
                       nentry |-> nentry, size |-> currentSize, removed |-> {}]
       IN  /\ entries' = st.entries
           /\ nxt' = st.L.nxt
           /\ prv' = st.L.prv
           /\ nkey' = st.nkey
           /\ nentry' = st.nentry
           /\ currentSize' = st.size
           /\ recency' = IF store THEN Without(Touch(recency, key), st.removed)
                         ELSE recency
           /\ pipe' = [pipe EXCEPT ![i] = [Ascend(@, "cache") EXCEPT !.stored = store]]
    /\ UNCHANGED << maxSize, inPipeline, now, pending, lastServe, origin, promised >>
    /\ UNCHANGED << gauge, recorded >>
    /\ UNCHANGED << lbVars, rlVars, streamVars, bgVars >>

\* the metrics middleware on entry: one more request in flight
PipeMetricsEnter(i) ==
    /\ Entering(i, "metrics")
    /\ gauge' = gauge + 1
    /\ pipe' = [pipe EXCEPT ![i] = Descend(@, "metrics")]
    /\ UNCHANGED recorded
    /\ UNCHANGED << lbVars, cacheVars, rlVars, streamVars, bgVars >>

\* a metrics middleware that does not lower the gauge after a 5xx
PipeMetricsRecordLeak(i) ==
    /\ Leaving(i, "metrics")
    /\ gauge' = IF pipe[i].d.status >= 500 THEN gauge ELSE gauge - 1
    /\ recorded' = [recorded EXCEPT ![statusRecorder(pipe[i].d)] = @ + 1]
    /\ pipe' = [pipe EXCEPT ![i] = Ascend(@, "metrics")]
    /\ UNCHANGED << lbVars, cacheVars, rlVars, streamVars, bgVars >>

\* the metrics middleware after next has returned: RecordRequest under the
\* recorded status, then the deferred DecrementConnections
PipeMetricsRecord(i) ==
    /\ Leaving(i, "metrics")
    /\ gauge' = gauge - 1
    /\ recorded' = [recorded EXCEPT ![statusRecorder(pipe[i].d)] = @ + 1]
    /\ pipe' = [pipe EXCEPT ![i] = Ascend(@, "metrics")]
    /\ UNCHANGED << lbVars, cacheVars, rlVars, streamVars, bgVars >>

\* proxyHandler: SelectBackend, and on an error the 503
PipeSelect(i) ==
    /\ Entering(i, "proxy")
    /\ LET r == RRSelect(healthy, current)
       IN  /\ current' = r.current
           /\ pipe' = [pipe EXCEPT ![i] =
                         IF r.err = ErrNone
                         THEN [Descend(@, "proxy") EXCEPT !.selects = @ + 1,
                                                          !.tried = @ + 1]
                         ELSE [ShortCircuit(@, "proxy", Unavailable)
                                 EXCEPT !.selects = @ + 1, !.selectErr = r.err]]
    /\ UNCHANGED << algorithm, urls, healthy, weight, connections, currentWeights,
                    pc, sel, scan, serving, lastRet, history, pristine >>
    /\ UNCHANGED << gauge, recorded >>
    /\ UNCHANGED << cacheVars, rlVars, streamVars, bgVars >>

\* proxyHandler that selects again when the round trip has failed
PipeForwardReturnRetry(i, o) ==
    /\ pipe[i].active
    /\ pipe[i].dir = "down"
    /\ pipe[i].depth = Len(Chain)
    /\ pipe' = [pipe EXCEPT ![i] =
                  IF o.kind = "error" /\ pipe[i].selects < 2
                  THEN [@ EXCEPT !.depth = @ - 1, !.outcome = o.kind]
                  ELSE [Ascend(@, "proxy") EXCEPT !.dir = "up", !.outcome = o.kind,
                                                  !.d = ReverseProxyServe(o)]]
    /\ UNCHANGED << gauge, recorded >>
    /\ UNCHANGED << lbVars, cacheVars, rlVars, streamVars, bgVars >>

\* proxyHandler: ReverseProxy.ServeHTTP has written the upstream's answer, or
\* the 502 of its error handler, and returns
PipeForwardReturn(i, o) ==
    /\ pipe[i].active
    /\ pipe[i].dir = "down"
    /\ pipe[i].depth = Len(Chain)
    /\ pipe' = [pipe EXCEPT ![i] =
                  [Ascend(@, "proxy") EXCEPT !.dir = "up", !.outcome = o.kind,
                                             !.d = ReverseProxyServe(o)]]
    /\ UNCHANGED << gauge, recorded >>
    /\ UNCHANGED << lbVars, cacheVars, rlVars, streamVars, bgVars >>

\* a request handed to proxyHandler itself, with no middleware around it
ForwardAccept(i, req) ==
    /\ ~pipe[i].active
    /\ pipe' = [pipe EXCEPT ![i] = [NoPipe EXCEPT !.active = TRUE, !.req = req,
                                                  !.depth = Len(Chain) - 1]]
    /\ UNCHANGED << gauge, recorded >>
    /\ UNCHANGED << lbVars, cacheVars, rlVars, streamVars, bgVars >>

\* proxyHandler has returned to the server
ForwardDone(i) ==
    /\ pipe[i].active
    /\ pipe[i].dir = "up"
    /\ pipe[i].depth = Len(Chain) - 1
    /\ pipe' = [pipe EXCEPT ![i] = NoPipe]
    /\ UNCHANGED << gauge, recorded >>
    /\ UNCHANGED << lbVars, cacheVars, rlVars, streamVars, bgVars >>

\* the assembled handler has returned
PipeDone(i) ==
    /\ pipe[i].active
    /\ pipe[i].dir = "up"
    /\ pipe[i].depth = 0
    /\ pipe' = [pipe EXCEPT ![i] = NoPipe]
    /\ UNCHANGED << gauge, recorded >>
    /\ UNCHANGED << lbVars, cacheVars, rlVars, streamVars, bgVars >>

\* ============================================================== lifecycle
\* ---- main, the goroutine it starts for Server.Start, and the HTTP server

\* no process has exited yet
Running == exit = -1

\* ---- initial state: main has started the Start goroutine and waits for a
\* signal; Start has started ListenAndServe and waits in its select
LifeIdle ==
    /\ mainPc = "wait"
    /\ startPc = "select"
    /\ startErr = "none"
    /\ ctxDone = FALSE
    /\ listenFailed = FALSE
    /\ accepting = TRUE
    /\ inflight = 0
    /\ waited = 0
    /\ shutdownRet = "none"
    /\ exit = -1


\* ---- actions

\* the HTTP server accepts a request, and finishes one
RequestArrive ==
    /\ Running
    /\ accepting
    /\ ~listenFailed
    /\ inflight < MaxInflight
    /\ inflight' = inflight + 1
    /\ UNCHANGED << mainPc, startPc, startErr, ctxDone, listenFailed, accepting,
                    waited, shutdownRet, exit >>
    /\ UNCHANGED << healthVars, nonBgVars >>

RequestComplete ==
    /\ Running
    /\ inflight > 0
    /\ inflight' = inflight - 1
    /\ UNCHANGED << mainPc, startPc, startErr, ctxDone, listenFailed, accepting,
                    waited, shutdownRet, exit >>
    /\ UNCHANGED << healthVars, nonBgVars >>

\* ListenAndServe fails with an error other than ErrServerClosed
ListenFail ==
    /\ Running
    /\ accepting
    /\ ~listenFailed
    /\ inflight = 0
    /\ listenFailed' = TRUE
    /\ accepting' = FALSE
    /\ UNCHANGED << mainPc, startPc, startErr, ctxDone, inflight, waited,
                    shutdownRet, exit >>
    /\ UNCHANGED << healthVars, nonBgVars >>

\* main: a signal arrives on sigChan, and main cancels the context
MainCancel ==
    /\ Running
    /\ mainPc = "wait"
    /\ mainPc' = "cancelled"
    /\ ctxDone' = TRUE
    /\ UNCHANGED << startPc, startErr, listenFailed, accepting, inflight, waited,
                    shutdownRet, exit >>
    /\ UNCHANGED << healthVars, nonBgVars >>

\* main calls Server.Shutdown with the grace period: the listener is closed
MainShutdownCall ==
    /\ Running
    /\ mainPc = "cancelled"
    /\ mainPc' = "shutdown"
    /\ accepting' = FALSE
    /\ waited' = 0
    /\ UNCHANGED << startPc, startErr, ctxDone, listenFailed, inflight,
                    shutdownRet, exit >>
    /\ UNCHANGED << healthVars, nonBgVars >>

\* Server.Shutdown returns: nil once no request is left, the context's error
\* once the grace period is over
ShutdownReturn ==
    /\ Running
    /\ mainPc = "shutdown"
    /\ \/ inflight = 0 /\ shutdownRet' = "nil"
       \/ waited >= GraceTicks /\ shutdownRet' = "deadline"
    /\ mainPc' = "stopping"
    /\ UNCHANGED << startPc, startErr, ctxDone, listenFailed, accepting, inflight,
                    waited, exit >>
    /\ UNCHANGED << healthVars, nonBgVars >>

\* main logs the outcome and returns
MainReturn ==
    /\ Running
    /\ mainPc = "stopping"
    /\ mainPc' = "returned"
    /\ exit' = 0
    /\ UNCHANGED << startPc, startErr, ctxDone, listenFailed, accepting, inflight,
                    waited, shutdownRet >>
    /\ UNCHANGED << healthVars, nonBgVars >>

\* Server.Start leaves its select: with the error of ListenAndServe, or with
\* ctx.Err() once the context is cancelled
StartReturn ==
    /\ Running
    /\ startPc = "select"
    /\ \/ listenFailed /\ startErr' = "listen"
       \/ ctxDone /\ startErr' = "canceled"
    /\ startPc' = "returned"
    /\ UNCHANGED << mainPc, ctxDone, listenFailed, accepting, inflight, waited,
                    shutdownRet, exit >>
    /\ UNCHANGED << healthVars, nonBgVars >>

\* the goroutine of main that called Start: log.Fatalf on an error
StartGoroutineEnd ==
    /\ Running
    /\ startPc = "returned"
    /\ startPc' = "ended"
    /\ exit' = IF startErr # "nil" THEN 1 ELSE exit
    /\ UNCHANGED << mainPc, startErr, ctxDone, listenFailed, accepting, inflight,
                    waited, shutdownRet >>
    /\ UNCHANGED << healthVars, nonBgVars >>

\* time passes while Shutdown waits; its context is done after GraceTicks
LifeTick ==
    /\ Running
    /\ mainPc = "shutdown"
    /\ waited < GraceTicks
    /\ waited' = waited + 1
    /\ UNCHANGED << mainPc, startPc, startErr, ctxDone, listenFailed, accepting,
                    inflight, shutdownRet, exit >>
    /\ UNCHANGED << healthVars, nonBgVars >>

\* ============================================================ health loop
\* ---- Server.startHealthChecks and the probe goroutines it starts

\* what a probe's GET can come to
ProbeOutcomes ==
    { [kind |-> "status", code |-> c] : c \in {199, 200, 299, 300, 503} }
        \cup { [kind |-> "error", code |-> 0], [kind |-> "timeout", code |-> 0] }

\* checkBackendHealth on the outcome of client.Get
checkBackendHealth(o) ==
    IF o.kind # "status" THEN FALSE ELSE o.code >= 200 /\ o.code < 300

NoProbe == [entry |-> 0, outcome |-> [kind |-> "none", code |-> 0], verdict |-> FALSE]

HealthIdle ==
    /\ loopPc = "off"
    /\ probes = << >>
    /\ lastVerdict = [i \in Pool |-> "none"]
    /\ lastProbe = NoProbe

\* performHealthChecks: one probe goroutine per entry of GetBackends()
performHealthChecks ==
    probes' = Append(probes, [i \in Pool |-> "get"])

\* the check before the loop
HealthStart ==
    /\ Running
    /\ loopPc = "start"
    /\ performHealthChecks
    /\ loopPc' = "waiting"
    /\ lastProbe' = NoProbe
    /\ UNCHANGED << lastVerdict, lifeVars, nonBgVars >>

\* a sweep that starts only when the probes of the sweeps before are over
HealthTickAfterProbes ==
    /\ Running
    /\ loopPc = "waiting"
    /\ Len(probes) < MaxRounds
    /\ \A r \in DOMAIN probes, i \in Pool : probes[r][i] = "done"
    /\ performHealthChecks
    /\ lastProbe' = NoProbe
    /\ UNCHANGED << loopPc, lastVerdict, lifeVars, nonBgVars >>

\* case <-ticker.C (the select is free to take it when the context is done
\* as well)
HealthTick ==
    /\ Running
    /\ loopPc = "waiting"
    /\ Len(probes) < MaxRounds
    /\ performHealthChecks
    /\ lastProbe' = NoProbe
    /\ UNCHANGED << loopPc, lastVerdict, lifeVars, nonBgVars >>

\* a loop that takes the cancellation and goes on waiting
HealthStopContinue ==
    /\ Running
    /\ loopPc = "waiting"
    /\ ctxDone
    /\ loopPc' = "waiting"
    /\ lastProbe' = NoProbe
    /\ UNCHANGED << probes, lastVerdict, lifeVars, nonBgVars >>

\* case <-ctx.Done()
HealthStop ==
    /\ Running
    /\ loopPc = "waiting"
    /\ ctxDone
    /\ loopPc' = "stopped"
    /\ lastProbe' = NoProbe
    /\ UNCHANGED << probes, lastVerdict, lifeVars, nonBgVars >>

\* a probe's client.Get ends and checkBackendHealth returns
ProbeAnswer(r, i, o) ==
    /\ Running
    /\ r \in DOMAIN probes
    /\ probes[r][i] = "get"
    /\ LET v == checkBackendHealth(o)
       IN  /\ probes' = [probes EXCEPT ![r][i] = IF v THEN "healthy" ELSE "unhealthy"]
           /\ lastProbe' = [entry |-> i, outcome |-> o, verdict |-> v]
    /\ UNCHANGED << loopPc, lastVerdict, lifeVars, nonBgVars >>

\* the probe goroutine publishes its verdict and ends
ProbePublish(r, i) ==
    /\ Running
    /\ r \in DOMAIN probes
    /\ probes[r][i] \in {"healthy", "unhealthy"}
    /\ SetHealthByURL(urls[i], probes[r][i] = "healthy")
    /\ probes' = [probes EXCEPT ![r][i] = "done"]
    /\ lastVerdict' = [lastVerdict EXCEPT ![i] = probes[r][i]]
    /\ lastProbe' = NoProbe
    /\ UNCHANGED << loopPc, lifeVars, cacheVars, rlVars, streamVars, pipeVars >>

\* ========================================================= specifications
\* The balancers behind the LoadBalancer interface.
NextLB ==
    \/ RRSelectBackend(ApiCaller)
    \/ WRRSelectBackend(ApiCaller)
    \/ LCBegin(ApiCaller)
    \/ LCStep(ApiCaller)
    \/ LCReturn(ApiCaller)
    \/ \E url \in URLInputs, flag \in BOOLEAN : UpdateBackendHealth(url, flag)
    \/ \E url \in URLInputs, w \in WeightInputs : UpdateBackendWeight(url, w)

\* The cache is left out of the balancer specifications: unconfigured, empty.
CacheInert ==
    /\ maxSize = 0
    /\ inPipeline = FALSE
    /\ CacheEmpty

\* The rate limiter is left out of the other specifications: capacity 0, no
\* bucket, no request.
StreamOff ==
    /\ spacing = 0
    /\ admits = {}
    /\ rejects = {}
    /\ credited = 0
    /\ clipped = FALSE

BackgroundIdle == LifeIdle /\ HealthIdle

RLInert ==
    /\ capacity = 0
    /\ refillRate = 0
    /\ RLEmpty
    /\ StreamOff
    /\ PipeIdle
    /\ BackgroundIdle

InitBalancer == InitLB /\ CacheInert /\ RLInert

SpecBalancer == InitBalancer /\ [][NextLB]_vars

\* The request path: proxyHandler executions over a pool of two, next to
\* direct Backend.ServeHTTP calls and health updates.
InitProxy ==
    /\ InitLB
    /\ N \in {0, 2}
    /\ CacheInert
    /\ RLInert

NextProxy ==
    \/ \E c \in Requests : RRSelectBackend(c)
    \/ \E c \in Requests : WRRSelectBackend(c)
    \/ \E c \in Requests : LCBegin(c)
    \/ \E c \in Requests : LCStep(c)
    \/ \E c \in Requests : LCReturn(c)
    \/ \E c \in Requests : ProxyComplete(c)
    \/ \E url \in URLInputs, flag \in BOOLEAN : UpdateBackendHealth(url, flag)
    \/ \E b \in Pool : BackendServeHTTPEnter(b)
    \/ \E b \in Pool, path \in ExitPaths : BackendServeHTTPExit(b, path)

SpecProxy == InitProxy /\ [][NextProxy]_vars

\* The balancer is left out of the cache specification: an empty pool.
LBInert ==
    /\ InitLB
    /\ algorithm = RoundRobin
    /\ N = 0

InitCacheAlone == InitCache /\ LBInert /\ RLInert

SpecCache == InitCacheAlone /\ [][NextCache]_vars

\* The rate limiter alone: concurrent executions of RateLimiter.Wrap for two
\* clients while time passes.
NextRateLimit ==
    \/ \E i \in RLSlots, r \in RLRequests : RLArrive(i, r)
    \/ \E i \in RLSlots : RLCreate(i)
    \/ \E i \in RLSlots : RLDecide(i)
    \/ \E i \in RLSlots : RLNextReturn(i)
    \/ RLTick(MaxRLTime)

InitRateLimit ==
    LBInert /\ CacheInert /\ InitRL /\ StreamOff /\ PipeIdle /\ BackgroundIdle

SpecRateLimit == InitRateLimit /\ [][NextRateLimit]_vars

\* The client key: requests that name their client in every way the headers
\* allow run through Wrap while the clock stands still.
InitClientKey ==
    /\ LBInert
    /\ CacheInert
    /\ capacity \in 1 .. MaxCapacity
    /\ refillRate = 1
    /\ RLEmpty
    /\ StreamOff
    /\ PipeIdle
    /\ BackgroundIdle

NextClientKey ==
    \/ \E i \in RLSlots, r \in KeyRequests : RLArrive(i, r)
    \/ \E i \in RLSlots : RLCreate(i)
    \/ \E i \in RLSlots : RLDecide(i)
    \/ \E i \in RLSlots : RLNextReturn(i)

SpecClientKey == InitClientKey /\ [][NextClientKey]_vars

\* A steady stream: one client sends a request every spacing ticks, from tick
\* 0 on, each request running through Wrap before the clock moves on. The
\* stream asks for more per second than the bucket's capacity and than its
\* refill rate.
StreamRequest == CHOOSE r \in RLRequests : r.xff = << >> /\ r.xri = ""

Due == spacing > 0 /\ rlNow % spacing = 0
Decided == rlNow \in admits \cup rejects

InitStream ==
    /\ capacity \in 1 .. MaxCapacity
    /\ refillRate \in 0 .. MaxRefillRate
    /\ spacing \in 1 .. MaxSpacing
    /\ spacing * capacity < TicksPerSecond
    /\ spacing * refillRate < TicksPerSecond
    /\ admits = {}
    /\ rejects = {}
    /\ credited = 0
    /\ clipped = FALSE
    /\ RLEmpty
    /\ PipeIdle
    /\ LBInert
    /\ CacheInert
    /\ BackgroundIdle

StreamArrive ==
    /\ Due
    /\ ~Decided
    /\ RLArrive(1, StreamRequest)

StreamDecide ==
    /\ TryConsumeStep(1)
    /\ admits' = IF lastRL'.kind = "admit" THEN admits \cup { rlNow } ELSE admits
    /\ rejects' = IF lastRL'.kind = "throttle" THEN rejects \cup { rlNow } ELSE rejects
    /\ LET tb  == buckets[rlClient[1]]
           add == TokensToAdd(tb, rlNow)
       IN  /\ credited' = IF add > 0 THEN credited + add ELSE credited
           /\ clipped' = (clipped \/ (add > 0 /\ tb.tokens + add > tb.capacity))
    /\ UNCHANGED spacing

StreamTick ==
    /\ Due => (Decided /\ rlpc[1] = "idle")
    /\ RLTick(MaxStreamTime)

NextStream ==
    \/ StreamArrive
    \/ RLCreate(1)
    \/ StreamDecide
    \/ RLNextReturn(1)
    \/ StreamTick

SpecRateStream == InitStream /\ [][NextStream]_vars

\* The assembled handler: concurrent requests of two clients run through the
\* layers of Server.buildHandler over a round-robin balancer. The clocks stand
\* still, so every client has the tokens of one bucket.
InitPipeline ==
    /\ InitLB
    /\ algorithm = RoundRobin
    /\ N \in { 0, 2 }
    /\ N = 2 => urls[1] # urls[2]
    /\ maxSize \in 1 .. MaxCacheSize
    /\ inPipeline = TRUE
    /\ CacheEmpty
    /\ capacity \in 1 .. MaxCapacity
    /\ refillRate = 1
    /\ RLEmpty
    /\ StreamOff
    /\ PipeIdle
    /\ BackgroundIdle

NextPipeline ==
    \/ \E i \in PipeSlots, req \in PipeRequests : PipeAccept(i, req)
    \/ \E i \in PipeSlots : PipeRateLimit(i)
    \/ \E i \in PipeSlots : PipeRateLimitReturn(i)
    \/ \E i \in PipeSlots : PipeCacheLookup(i)
    \/ \E i \in PipeSlots : PipeCacheStore(i)
    \/ \E i \in PipeSlots : PipeMetricsEnter(i)
    \/ \E i \in PipeSlots : PipeMetricsRecord(i)
    \/ \E i \in PipeSlots : PipeSelect(i)
    \/ \E i \in PipeSlots, o \in UpstreamOutcomes : PipeForwardReturn(i, o)
    \/ \E i \in PipeSlots : PipeDone(i)

SpecPipeline == InitPipeline /\ [][NextPipeline]_vars

\* The forwarder alone: concurrent executions of proxyHandler over a
\* round-robin balancer whose backends change health, each round trip ending
\* in an answer or in a transport error.
InitForwarder ==
    /\ InitLB
    /\ algorithm = RoundRobin
    /\ CacheInert
    /\ RLInert

NextForwarder ==
    \/ \E i \in PipeSlots, req \in PipeRequests : ForwardAccept(i, req)
    \/ \E i \in PipeSlots : PipeSelect(i)
    \/ \E i \in PipeSlots, o \in UpstreamOutcomes : PipeForwardReturn(i, o)
    \/ \E i \in PipeSlots : ForwardDone(i)
    \/ \E url \in URLInputs, flag \in BOOLEAN : UpdateBackendHealth(url, flag)

SpecForwarder == InitForwarder /\ [][NextForwarder]_vars

\* The process: main, the goroutine running Server.Start, and the HTTP server
\* with its requests, from the moment the server listens.
PipelineOff == StreamOff /\ PipeIdle

InitLifecycle ==
    /\ LBInert
    /\ LifeIdle
    /\ HealthIdle
    /\ CacheInert
    /\ capacity = 0
    /\ refillRate = 0
    /\ RLEmpty
    /\ PipelineOff

NextLifecycle ==
    \/ RequestArrive
    \/ RequestComplete
    \/ ListenFail
    \/ MainCancel
    \/ MainShutdownCall
    \/ ShutdownReturn
    \/ MainReturn
    \/ StartReturn
    \/ StartGoroutineEnd
    \/ LifeTick

SpecLifecycle == InitLifecycle /\ [][NextLifecycle]_vars

\* The health loop over a pool, until and after main cancels its context.
InitHealth ==
    /\ InitLB
    /\ algorithm = RoundRobin
    /\ N = 2
    /\ CacheInert
    /\ capacity = 0
    /\ refillRate = 0
    /\ RLEmpty
    /\ PipelineOff
    /\ LifeIdle
    /\ loopPc = "start"
    /\ probes = << >>
    /\ lastVerdict = [i \in Pool |-> "none"]
    /\ lastProbe = NoProbe

NextHealth ==
    \/ HealthStart
    \/ HealthTick
    \/ HealthStop
    \/ \E r \in 1..MaxRounds, i \in Pool, o \in ProbeOutcomes : ProbeAnswer(r, i, o)
    \/ \E r \in 1..MaxRounds, i \in Pool : ProbePublish(r, i)
    \/ MainCancel

SpecHealth == InitHealth /\ [][NextHealth]_vars

\* The same with the scheduling the Go runtime gives the loop's goroutine: it
\* runs when it can, and a select with a ready case takes one.
SpecHealthFair ==
    /\ InitHealth
    /\ [][NextHealth]_vars
    /\ WF_vars(HealthStart)
    /\ WF_vars(HealthStop)

\* ================================================================ claims
\* ---- helpers of the claims' formulas
Returned == lastRet.kind = "ret"
ReturnedBackend == Returned /\ lastRet.err = ErrNone
ReturnedError == Returned /\ lastRet.err # ErrNone

RECURSIVE CountIn(_, _, _, _)
\* number of positions p in i..j with seq[p] = b
CountIn(seq, b, i, j) ==
    IF i > j THEN 0
    ELSE (IF seq[i] = b THEN 1 ELSE 0) + CountIn(seq, b, i + 1, j)

FloorDiv(n, k) == n \div k
CeilDiv(n, k) == (n + k - 1) \div k

\* requests proxyHandler has dispatched to backend b and not finished
InFlight(b) == Cardinality({c \in Requests : pc[c] = "forwarding" /\ sel[c] = b})

\* C1: for each strategy, a SelectBackend that returns a backend returns one
\* of the pool whose healthy flag is true at the return, and a SelectBackend
\* call never changes a healthy flag (the flag set by UpdateBackendHealth stays
\* until the next UpdateBackendHealth).
C1_NeverReturnsUnhealthy ==
    /\ [](ReturnedBackend => lastRet.idx \in Pool /\ healthy[lastRet.idx])
    /\ [][lastRet'.kind = "ret" => healthy' = healthy]_vars

C1_Witness ==
    /\ ReturnedBackend
    /\ N = 3
    /\ lastRet.idx = 3
    /\ ~healthy[1]
    /\ ~healthy[2]

\* C2: SelectBackend returns an error only when the pool is empty or every
\* backend is unhealthy; with a healthy backend present it returns a healthy one.
C2_ErrorOnlyWithoutHealthy ==
    Returned =>
        IF \E i \in Pool : healthy[i]
        THEN lastRet.err = ErrNone /\ healthy[lastRet.idx]
        ELSE lastRet.err # ErrNone

\* C3: round-robin fairness: in any run of consecutive selections made while
\* all k backends are healthy, each backend is selected between floor(n/k) and
\* ceil(n/k) times, n being the length of the run.
C3_RoundRobinFairness ==
    (algorithm = RoundRobin /\ N > 0) =>
        \A i \in 1..Len(history) : \A j \in i..Len(history) : \A b \in Pool :
            LET n == j - i + 1
                cnt == CountIn(history, b, i, j)
            IN  FloorDiv(n, N) <= cnt /\ cnt <= CeilDiv(n, N)

C3_Witness ==
    /\ algorithm = RoundRobin
    /\ N = 3
    /\ Len(history) = 30
    /\ \A b \in Pool : CountIn(history, b, 1, 30) = 10

\* C4: weighted fairness: from the initial state, all backends healthy and
\* weights fixed, every round of W = sum of weights selections selects backend
\* i exactly weight[i] times; with weights 5 and 1 no round holds 5 consecutive
\* selections of the first backend.
RoundLen == TotalWeight([i \in Pool |-> TRUE], weight)

C4_WeightedFairness ==
    (algorithm = WeightedRoundRobin /\ N > 0) =>
        \A r \in 1..(Len(history) \div RoundLen) :
            LET lo == (r - 1) * RoundLen + 1
                hi == r * RoundLen
            IN  /\ \A b \in Pool : CountIn(history, b, lo, hi) = weight[b]
                /\ weight = << 5, 1 >> =>
                     ~ \E i \in lo..(hi - 4) : \A p \in i..(i + 4) : history[p] = 1

C4_Witness ==
    /\ algorithm = WeightedRoundRobin
    /\ weight = << 5, 1 >>
    /\ Len(history) >= 12
    /\ CountIn(history, 1, 7, 12) = 5
    /\ CountIn(history, 2, 7, 12) = 1

\* C5 (as claimed): the backend least-connections returns has, at the return,
\* no more active connections than any healthy backend, also when counters
\* change during the scan.
C5_Original_MinAtReturn ==
    (algorithm = LeastConnections /\ ReturnedBackend) =>
        \A j \in Pool : healthy[j] => connections[lastRet.idx] <= connections[j]

\* C5 (amended): the same, for a scan during which no connection counter changed.
C5_MinAtReturnOfQuietScan ==
    (algorithm = LeastConnections /\ ReturnedBackend /\ ~lastRet.dirty) =>
        /\ healthy[lastRet.idx]
        /\ \A j \in Pool : healthy[j] => connections[lastRet.idx] <= connections[j]

C5_Witness ==
    /\ algorithm = LeastConnections
    /\ ReturnedBackend
    /\ ~lastRet.dirty
    /\ lastRet.idx = 2
    /\ healthy[1]
    /\ connections[1] = 1
    /\ connections[2] = 0

\* C6: each backend's active counter equals the number of requests in flight to
\* it: those proxyHandler dispatched plus the direct ServeHTTP calls running.
C6_ActiveEqualsInFlight ==
    \A b \in Pool : connections[b] = InFlight(b) + serving[b]

\* ---- helpers of the cache claims
RECURSIVE WalkFrom(_, _, _)
\* The nodes met from cell c along the pointer map ptr up to the dummy node
\* stop, NIL standing for a walk that leaves the list or does not end.
WalkFrom(ptr, c, fuel) ==
    IF c \in {HEAD, TAIL} THEN << >>
    ELSE IF fuel = 0 \/ c \notin NodeIds THEN << NIL >>
    ELSE << c >> \o WalkFrom(ptr, ptr[c], fuel - 1)

ForwardWalk == WalkFrom(nxt, nxt[HEAD], Cardinality(NodeIds) + 1)
BackwardWalk == WalkFrom(prv, prv[TAIL], Cardinality(NodeIds) + 1)

Reverse(seq) == [i \in 1..Len(seq) |-> seq[Len(seq) + 1 - i]]
Range(seq) == { seq[i] : i \in 1..Len(seq) }
MappedNodes == { entries[k] : k \in DOMAIN entries }

\* C7: the number of cached entries never exceeds maxSize.
C7_CacheSizeBound == Cardinality(DOMAIN entries) <= maxSize

\* An insertion into a full cache of more than one entry has just evicted.
C7_Witness ==
    /\ lastServe.kind = "MISS"
    /\ lastServe.stored = "insert"
    /\ lastServe.removed # {}
    /\ lastServe.key \in DOMAIN entries
    /\ maxSize > 1
    /\ Cardinality(DOMAIN entries) = maxSize

\* C8: map keys and linked list nodes are in bijection (the list from head to
\* tail is a chain of distinct nodes, the same read backwards, its nodes are
\* exactly the nodes the map points to, each carrying the key that maps to
\* it), and currentSize is the number of map entries.
C8_MapListBijection ==
    /\ NIL \notin Range(ForwardWalk)
    /\ Cardinality(Range(ForwardWalk)) = Len(ForwardWalk)
    /\ BackwardWalk = Reverse(ForwardWalk)
    /\ Range(ForwardWalk) = MappedNodes
    /\ \A k \in DOMAIN entries : nkey[entries[k]] = k
    /\ currentSize = Cardinality(DOMAIN entries)

\* The second of two concurrent misses of one key has just stored its entry
\* over the first one's, next to another cached key.
C8_Witness ==
    /\ lastServe.kind = "MISS"
    /\ lastServe.stored = "update"
    /\ Cardinality(DOMAIN entries) > 1
    /\ ForwardWalk[1] = entries[lastServe.key]

\* C9: a HIT carries the status, the body and, for every header name but
\* X-Cache-Status, the list of values of the response that the miss which
\* stored the entry delivered.
C9_HitIdenticalToOrigin ==
    lastServe.kind = "HIT" =>
        /\ lastServe.resp.status = lastServe.origin.status
        /\ lastServe.resp.body = lastServe.origin.body
        /\ \A h \in HeaderNames \ {"X-Cache-Status"} :
               lastServe.resp.headers[h] = lastServe.origin.headers[h]

\* C10: a GET that arrives after a GET of the same key got a 2xx response,
\* before that response's expiry and with no eviction of the key in between,
\* is answered from the cache with X-Cache-Status: HIT, the handler not called.
C10_LaterGetIsHit ==
    (lastServe.kind \in {"HIT", "LOOKUP-MISS"} /\ lastServe.owed) =>
        /\ lastServe.kind = "HIT"
        /\ lastServe.resp.headers["X-Cache-Status"] = << "HIT" >>
        /\ ~lastServe.invoked

\* The step just taken is a GET lookup that found an entry for its key in the map.
LookupFound ==
    /\ lastServe.kind \in {"HIT", "LOOKUP-MISS"}
    /\ lastServe.expiresAt >= 0

\* Keys carried by the nodes linked into the list.
LinkedKeys == { nkey[n] : n \in Range(ForwardWalk) \ {NIL} }

\* The lookup just taken dropped its key from map and list and goes on as a
\* miss that calls the handler.
RemovedAndMissed ==
    /\ lastServe.kind = "LOOKUP-MISS"
    /\ lastServe.removed = {lastServe.key}
    /\ lastServe.key \notin DOMAIN entries
    /\ lastServe.key \notin LinkedKeys
    /\ currentSize = Cardinality(DOMAIN entries)
    /\ pending[lastServe.key] > 0

\* C11: an entry is served only while now < expiresAt; a GET at now >= expiresAt
\* is not served from the cache: the entry leaves map and list, the size is
\* decremented and the request goes on as a miss.
C11_ExpiredNotServed ==
    LookupFound =>
        /\ lastServe.kind = "HIT" => now < lastServe.expiresAt
        /\ now >= lastServe.expiresAt => RemovedAndMissed

\* Keys of the list nodes from head to tail.
ListKeys == [i \in 1..Len(ForwardWalk) |-> nkey[ForwardWalk[i]]]

\* C12: the list from head to tail is the access order, latest first; a miss
\* that stores a new key beyond maxSize entries evicts exactly one entry, the
\* least recently accessed one, and a miss evicts nothing otherwise.
C12_EvictsLeastRecentlyUsed ==
    /\ ListKeys = recency
    /\ lastServe.kind = "MISS" =>
         /\ lastServe.removed = IF lastServe.lru = NoKey THEN {} ELSE {lastServe.lru}
         /\ lastServe.lru # NoKey => Cardinality(DOMAIN entries) = maxSize

\* maxSize 2: a third key has just been stored at a later tick, the least
\* recently accessed key is gone and an entry stored earlier stays.
C12_Witness ==
    /\ maxSize = 2
    /\ lastServe.kind = "MISS"
    /\ lastServe.key = "/b||"
    /\ lastServe.removed = {"/a|j|"}
    /\ recency = << "/b||", "/a||" >>
    /\ nentry[entries["/a||"]].ExpiresAt < lastServe.expiresAt

\* What the cache holds: map, list, nodes and size.
cacheState == << entries, nxt, prv, nkey, nentry, currentSize >>

\* C13: a request whose method is not GET has the handler called, is not
\* answered with X-Cache-Status: HIT, and leaves map, list order and size as
\* they were, whatever the cache holds.
C13_NonGetBypass ==
    /\ [](lastServe.kind = "BYPASS" =>
            /\ lastServe.invoked
            /\ lastServe.resp.headers["X-Cache-Status"] = << >>)
    /\ [][lastServe'.kind = "BYPASS" => cacheState' = cacheState]_vars

\* A non-GET request answered 201 by the handler while two unexpired entries
\* are cached.
C13_Witness ==
    /\ lastServe.kind = "BYPASS"
    /\ lastServe.resp.status = 201
    /\ Cardinality(DOMAIN entries) = 2
    /\ \A k \in DOMAIN entries : ~IsExpired(nentry[entries[k]], now)

\* C14: when the handler of a GET miss has returned, an entry has been stored
\* for the key if and only if the status delivered to the client is 2xx,
\* whether the handler set it or the first Write implied 200.
C14_CachedIff2xx ==
    lastServe.kind = "MISS" =>
        (lastServe.stored # "none" <=> Is2xx(lastServe.resp.status))
\* ---- helpers of the rate limiter claims
Created == { c \in Clients : buckets[c] # NoBucket }

\* C15: every bucket holds between 0 and capacity tokens in every state a
\* caller can observe it in: after its creation and after every TryConsume,
\* whatever the interleaving of the requests and the passage of time.
C15_TokenBounds ==
    \A c \in Created :
        /\ buckets[c].tokens >= 0
        /\ buckets[c].tokens <= buckets[c].capacity
        /\ buckets[c].capacity = capacity

\* a bucket emptied by two executions of one client that were in Wrap
\* together, refilled after a second and saturated at its capacity
C15_Witness ==
    /\ lastRL.kind = "admit"
    /\ lastRL.found.tokens = 0
    /\ lastRL.before = capacity
    /\ WholeSeconds(lastRL.at - lastRL.found.lastRefill) * refillRate > capacity
    /\ \E j \in RLSlots : j # lastRL.slot /\ rlClient[j] = lastRL.client
                             /\ rlpc[j] = "next"

\* C16: a request is forwarded exactly when its client's bucket holds at
\* least one token after the refill, and a forwarded request takes exactly one
\* token; so while no whole second has passed since a bucket was created, the
\* first capacity requests of its client are forwarded and every later one is
\* answered 429.
C16_AdmissionRule ==
    /\ lastRL.kind \in { "admit", "throttle" } =>
           /\ (lastRL.kind = "admit") = (lastRL.before >= 1)
           /\ (rlpc[lastRL.slot] = "next") = (lastRL.kind = "admit")
           /\ buckets[lastRL.client].tokens = lastRL.after
           /\ lastRL.kind = "admit" => lastRL.after = lastRL.before - 1
    /\ \A c \in Clients : \A k \in 1 .. Len(burst[c]) :
           burst[c][k] = (k <= capacity)

\* capacity 2, refill rate 1, three requests of one client in the tick the
\* bucket was created in: forwarded, forwarded, 429
C16_Witness ==
    /\ capacity = 2
    /\ refillRate = 1
    /\ lastRL.kind = "throttle"
    /\ lastRL.at = created[lastRL.client]
    /\ burst[lastRL.client] = << TRUE, TRUE, FALSE >>

\* ---- helpers of the rate convergence claim
\* the tick of the first 429: the initial burst is spent
BurstSpent == CHOOSE t \in rejects : \A u \in rejects : t <= u

\* the requests admitted in the T seconds that start at tick w
AdmittedIn(w, T) == Cardinality(admits \cap (w .. (w + T * TicksPerSecond - 1)))

\* the windows of whole seconds that lie after the burst and have passed
Windows ==
    { << w, T >> \in (0 .. MaxStreamTime) \X (1 .. (MaxStreamTime \div TicksPerSecond)) :
        /\ rejects # {}
        /\ w >= BurstSpent
        /\ w + T * TicksPerSecond <= rlNow }

\* C17: in a steady stream of one client that asks for more than capacity and
\* refill rate, every window of T seconds after the initial burst admits
\* between T * (refillRate - 1) and T * (refillRate + 1) requests.
C17_RateConvergence ==
    \A win \in Windows :
        /\ AdmittedIn(win[1], win[2]) >= win[2] * (refillRate - 1)
        /\ AdmittedIn(win[1], win[2]) <= win[2] * (refillRate + 1)

\* ---- helpers of the throttle response claim
\* the decimal digits of a natural number, as code points ('0' is 48)
RECURSIVE Decimal(_)
Decimal(n) ==
    IF n < 10 THEN << 48 + n >> ELSE Decimal(n \div 10) \o << 48 + (n % 10) >>

\* C18: a request that finds no token is answered with status 429, the body
\* "Rate limit exceeded", X-RateLimit-Remaining: 0 and X-RateLimit-Limit: the
\* configured capacity; the downstream handler is not called and the bucket
\* keeps the tokens it had.
C18_ThrottleResponse ==
    lastRL.kind = "throttle" =>
        /\ lastRL.before < 1
        /\ lastRL.status = 429
        /\ lastRL.body = "Rate limit exceeded"
        /\ lastRL.headers["X-RateLimit-Remaining"] = << << 48 >> >>
        /\ lastRL.headers["X-RateLimit-Limit"] = << Decimal(capacity) >>
        /\ rlpc[lastRL.slot] # "next"
        /\ lastRL.after = lastRL.before
        /\ buckets[lastRL.client].tokens = lastRL.before

\* ---- helpers of the pipeline claims
\* the wrapping order the specification fixes, outermost first
Order == << "ratelimit", "cache", "metrics", "proxy" >>

\* the phases of a request that goes k layers deep: in through the first k
\* layers, out through them in reverse
Nest(k) ==
    [j \in 1 .. 2 * k |-> IF j <= k THEN << Order[j], "pre" >>
                          ELSE << Order[2 * k + 1 - j], "post" >>]

IsPrefix(s, t) == Len(s) <= Len(t) /\ \A j \in 1 .. Len(s) : s[j] = t[j]

Finished(i) == pipe[i].active /\ pipe[i].dir = "up" /\ pipe[i].depth = 0

\* C19: the assembled handler is rate limiter, cache, metrics, forwarder from
\* the outside in, and the phases of every request are strictly nested in
\* that order: rate-limit decision, cache lookup, metrics entry, backend
\* selection on the way in, forwarder return, metrics recording, cache
\* insertion, rate limiter return on the way out.
C19_PipelineOrder ==
    /\ Chain = Order
    /\ \A i \in PipeSlots :
          /\ \E k \in 0 .. Len(Order) : IsPrefix(pipe[i].trace, Nest(k))
          /\ Finished(i) => \E k \in 1 .. Len(Order) : pipe[i].trace = Nest(k)
          /\ pipe[i].stored =>
                /\ IsPrefix(pipe[i].trace, Nest(Len(Order)))
                /\ Len(pipe[i].trace) >= 2 * Len(Order) - 1

\* a GET that went through all four layers and back and was stored on the
\* way out
C19_Witness ==
    \E i \in PipeSlots :
        /\ Finished(i)
        /\ pipe[i].stored
        /\ pipe[i].trace = Nest(Len(Order))
        /\ currentSize > 0

\* the selection state of the balancers and the backends' health and load
lbState == << current, currentWeights, healthy, weight, connections >>

\* C20: a request answered 429 reaches neither the cache nor the metrics
\* middleware nor the forwarder, and no step of it changes the cache (map,
\* list order, size), the balancer state or the metrics.
C20_ThrottledTouchesNothing ==
    /\ [](\A i \in PipeSlots : pipe[i].throttled =>
             \A j \in 1 .. Len(pipe[i].trace) : pipe[i].trace[j][1] = "ratelimit")
    /\ [][\A i \in PipeSlots :
             (pipe'[i] # pipe[i] /\ (pipe[i].throttled \/ pipe'[i].throttled)) =>
                 /\ cacheState' = cacheState
                 /\ recency' = recency
                 /\ lbState' = lbState
                 /\ gauge' = gauge
                 /\ recorded' = recorded]_vars

\* a request refused while the cache holds an entry and another request is
\* inside the metrics middleware
C20_Witness ==
    \E i \in PipeSlots :
        /\ Finished(i)
        /\ pipe[i].throttled
        /\ pipe[i].d.status = 429
        /\ currentSize > 0
        /\ gauge > 0

\* ---- helpers of the forwarder claim
\* the execution has been through proxyHandler's SelectBackend
Selected(p) == p.selects > 0

\* C21: a failed SelectBackend (empty pool, no healthy backend) is answered
\* 503 "No healthy backends available" without any upstream call, a failed
\* round trip is answered 502 "Backend server error", and every execution of
\* proxyHandler calls SelectBackend once and tries at most one backend.
C21_ForwarderErrors ==
    \A i \in PipeSlots :
        LET p == pipe[i]
        IN  /\ p.selects <= 1
            /\ p.tried <= 1
            /\ (p.active /\ p.dir = "up") => p.selects = 1
            /\ p.selectErr # ErrNone =>
                  /\ p.selectErr \in { ErrNoBackends, ErrNoHealthy }
                  /\ p.tried = 0
                  /\ p.outcome = "none"
                  /\ p.d.status = 503
                  /\ p.d.body = "No healthy backends available"
            /\ p.outcome = "error" =>
                  /\ p.tried = 1
                  /\ p.d.status = 502
                  /\ p.d.body = "Backend server error"
            /\ (Selected(p) /\ p.selectErr = ErrNone /\ p.dir = "up"
                  /\ p.outcome = "answer") => Is2xx(p.d.status)

\* one execution answered 502 after its backend failed, next to one answered
\* 503 because both backends of the pool are unhealthy
C21_Witness ==
    \E i, j \in PipeSlots :
        /\ pipe[i].dir = "up" /\ pipe[i].outcome = "error" /\ pipe[i].d.status = 502
        /\ pipe[j].dir = "up" /\ pipe[j].selectErr = ErrNoHealthy
        /\ pipe[j].d.status = 503
        /\ N = 2

\* ---- helpers of the lifecycle claims
Exited == exit # -1

\* C22: once a signal has cancelled the context the process does not exit
\* before Server.Shutdown has returned, and when nothing has failed it exits
\* with status 0, however main and the goroutine running Server.Start
\* interleave.
C22_GracefulShutdown ==
    (Exited /\ ctxDone /\ ~listenFailed) =>
        /\ shutdownRet # "none"
        /\ exit = 0

\* C23: a call of Server.Shutdown with a grace period always returns: as soon
\* as no request is in flight, and at the latest when the grace period is
\* over even if the requests in flight never complete.  In the form a finite
\* run decides: a pending call is never cut short by the end of the process,
\* and it can return whenever the drain is over or the grace period is.
C23_ShutdownTerminates ==
    mainPc = "shutdown" =>
        /\ Running
        /\ (inflight = 0 \/ waited >= GraceTicks) => ENABLED ShutdownReturn

\* C24: once the context of the health loop is cancelled, no step changes the
\* healthy flag of any backend: a probe still in flight publishes nothing.
C24_LateProbesDiscarded == [][ctxDone => healthy' = healthy]_vars

\* C25: a probe's verdict is healthy exactly when its GET was answered in
\* time with a status in [200, 300); and after a probe of a pool entry has
\* completed, that entry's healthy flag equals the verdict of the entry's
\* last completed probe, entries with the same URL included.
C25_ProbeVerdictPublished ==
    /\ lastProbe.entry # 0 =>
          (lastProbe.verdict <=>
              /\ lastProbe.outcome.kind = "status"
              /\ lastProbe.outcome.code \in 200..299)
    /\ \A i \in Pool :
          lastVerdict[i] # "none" => (healthy[i] <=> lastVerdict[i] = "healthy")

\* ---- the reference smooth weighted round-robin step
HealthyOf(h) == { i \in 1..Len(h) : h[i] }

ReferenceAdd(h, w, cw) == [i \in 1..Len(h) |-> IF h[i] THEN cw[i] + w[i] ELSE cw[i]]

ReferencePick(h, a) ==
    CHOOSE k \in HealthyOf(h) :
        \A j \in HealthyOf(h) : a[k] > a[j] \/ (a[k] = a[j] /\ k <= j)

ReferenceStep(h, w, cw) ==
    LET a == ReferenceAdd(h, w, cw)
    IN  IF HealthyOf(h) = {} THEN [idx |-> 0, cw |-> cw]
        ELSE LET k == ReferencePick(h, a)
             IN  [idx |-> k, cw |-> [a EXCEPT ![k] = @ - TotalWeight(h, w)]]

\* a step that is one SelectBackend call of the weighted balancer
WRRCall == algorithm = WeightedRoundRobin /\ lastRet'.kind = "ret"

\* C26: from every reachable state with a healthy backend, one SelectBackend
\* call of the weighted balancer returns the backend, and leaves the
\* current-weight vector, of the reference step: add the weight of each
\* healthy backend, pick the first maximum among the healthy ones, subtract
\* the healthy total from it.
C26_RefinesReference ==
    [][(WRRCall /\ HealthyOf(healthy) # {}) =>
          LET ref == ReferenceStep(healthy, weight, currentWeights)
          IN  /\ lastRet'.idx = ref.idx
              /\ currentWeights' = ref.cw]_vars

\* ---- the round-robin step, stated on the positions it probes
\* the position probed k-th (k = 0, 1, ...) when the index is c
ProbePos(c, k) == ((c - 1 + k) % N) + 1

HealthyProbes(c) == { k \in 0..(N - 1) : healthy[ProbePos(c, k)] }

FirstProbe(c) == CHOOSE k \in HealthyProbes(c) : \A j \in HealthyProbes(c) : k <= j

\* a step that is one SelectBackend call of the round-robin balancer
RRCall == algorithm = RoundRobin /\ lastRet'.kind = "ret"

\* C27: a round-robin SelectBackend with index c over N > 0 backends probes
\* the positions c, c+1, ... (mod N), at most N of them, returns the first
\* healthy one, at position p, and leaves the index at the position after p;
\* with no healthy backend it returns the no-healthy error, having advanced
\* the index N times; on an empty pool it returns the no-backend error.
C27_RoundRobinStep ==
    [][RRCall =>
          IF N = 0
          THEN lastRet'.err = ErrNoBackends /\ lastRet'.idx = 0
          ELSE IF HealthyProbes(current) = {}
          THEN /\ lastRet'.err = ErrNoHealthy
               /\ lastRet'.idx = 0
               /\ current' = ProbePos(current, N)
          ELSE LET p == ProbePos(current, FirstProbe(current))
               IN  /\ lastRet'.err = ErrNone
                   /\ lastRet'.idx = p
                   /\ current' = ProbePos(p, 1)]_vars

\* a call that returned the third of three backends, the other two unhealthy
C27_Witness ==
    /\ algorithm = RoundRobin
    /\ N = 3
    /\ lastRet.kind = "ret"
    /\ lastRet.idx = 3
    /\ ~healthy[1]
    /\ ~healthy[2]
    /\ current = 1

\* ---- the least-connections rule
\* the healthy backends with the fewest active connections
LeastLoaded ==
    { i \in Pool : healthy[i] /\ \A j \in Pool : healthy[j] => connections[i] <= connections[j] }

\* a step of a least-connections SelectBackend call, and its return
LCCallStep ==
    /\ algorithm = LeastConnections
    /\ \/ \E c \in Callers : scan'[c].pos # scan[c].pos
       \/ lastRet'.kind = "ret"
LCQuietReturn == algorithm = LeastConnections /\ lastRet'.kind = "ret" /\ ~lastRet'.dirty

\* C28: a least-connections SelectBackend during which no counter changed
\* returns the first backend in pool order among the healthy ones with the
\* minimum active count; on an empty pool it returns the no-backend error,
\* with no healthy backend the no-healthy error; and no step of the call
\* changes balancer or backend state.
C28_LeastConnectionsRule ==
    [][/\ LCQuietReturn =>
             IF N = 0 THEN lastRet'.err = ErrNoBackends /\ lastRet'.idx = 0
             ELSE IF LeastLoaded = {}
             THEN lastRet'.err = ErrNoHealthy /\ lastRet'.idx = 0
             ELSE /\ lastRet'.err = ErrNone
                  /\ lastRet'.idx \in LeastLoaded
                  /\ \A j \in LeastLoaded : lastRet'.idx <= j
       /\ LCCallStep =>
             UNCHANGED << urls, healthy, weight, connections, current, currentWeights >>
      ]_vars

\* a quiet scan over two healthy backends with one connection each returned
\* the first
C28_Witness ==
    /\ algorithm = LeastConnections
    /\ lastRet.kind = "ret"
    /\ ~lastRet.dirty
    /\ lastRet.idx = 1
    /\ healthy[1] /\ healthy[2]
    /\ connections[1] = 1
    /\ connections[2] = 1

\* C29: under every interleaving of concurrent Backend.ServeHTTP calls, the
\* active counter of each backend equals the number of ServeHTTP calls in
\* progress on it, whichever way the ended calls returned (502 after a
\* transport error, or completion): it is never negative, and 0 when no call
\* is in progress.
C29_ActiveBalanced ==
    \A b \in Pool :
        /\ connections[b] = serving[b]
        /\ connections[b] >= 0

\* two calls in progress on the first backend, none on the second
C29_Witness ==
    /\ N = 2
    /\ serving[1] = 2
    /\ connections[1] = 2
    /\ serving[2] = 0
    /\ connections[2] = 0

\* C30: refill credits floor(whole seconds since lastRefill) * refillRate and
\* keeps the fraction of a second for the next call: for a bucket no refill
\* of which has saturated, right after any TryConsume the tokens credited
\* since the bucket's creation are floor(seconds since creation) * refillRate.
C30_NoFractionLost ==
    (lastRL.kind \in {"admit", "throttle"} /\ lastRL.at = rlNow /\ ~clipped) =>
        credited = WholeSeconds(rlNow - created[lastRL.client]) * refillRate

\* ---- helpers of the client key claim
\* the pieces without the blanks in front and at the end
RECURSIVE TrimLeft(_)
TrimLeft(ps) ==
    IF ps # << >> /\ Head(ps) = " " THEN TrimLeft(Tail(ps)) ELSE ps

RECURSIVE TrimRight(_)
TrimRight(ps) ==
    IF ps # << >> /\ ps[Len(ps)] = " " THEN TrimRight(SubSeq(ps, 1, Len(ps) - 1)) ELSE ps

TrimSpace(ps) == TrimRight(TrimLeft(ps))

\* the key the rule of the specification gives a request
LeftmostAddress(ps) == Join(TrimSpace(SubSeq(ps, 1, FirstComma(ps, 1) - 1)))

ExpectedKey(r) ==
    IF r.xff # << >> THEN LeftmostAddress(r.xff)
    ELSE IF r.xri # "" THEN r.xri
    ELSE r.remote

\* C31: the bucket key of a request is the leftmost address of
\* X-Forwarded-For when that header is not empty, else X-Real-IP when not
\* empty, else the remote address, without the blanks around it: requests
\* whose leftmost forwarded address differs by blanks only get one key.
C31_ClientKey ==
    [][\A i \in RLSlots, r \in KeyRequests :
          RLArrive(i, r) => rlClient'[i] = ExpectedKey(r)]_vars

\* ---- helpers of the bucket identity claim
\* the requests of client c forwarded while no whole second had passed since
\* its bucket was created
ForwardedInBurst(b) == Cardinality({ k \in 1 .. Len(b) : b[k] })

\* C32: whatever the interleaving of concurrent getBucket calls, a bucket
\* stored in the map is never removed nor replaced (the call that finds it at
\* its second lookup returns it untouched), so the concurrent first requests
\* of a client are forwarded at most capacity times before any refill.
C32_OneBucketPerKey ==
    [][\A c \in Clients :
          /\ buckets[c] # NoBucket =>
                /\ buckets'[c] # NoBucket
                /\ created'[c] = created[c]
                /\ lastRL'.kind = "create" => buckets'[c] = buckets[c]
          /\ ForwardedInBurst(burst'[c]) <= capacity]_vars

\* a getBucket call that lost the race: its second lookup found the bucket
\* the other call had created and already taken a token from
C32_Witness ==
    /\ lastRL.kind = "create"
    /\ capacity >= 1
    /\ created[lastRL.client] = rlNow
    /\ buckets[lastRL.client].tokens = capacity - 1

ProbeInFlight(r, i) == probes[r][i] = "get"

\* C34: a sweep starts one probe per backend and returns without waiting for
\* them: whatever probes are still in flight, every probe in flight can be
\* answered, every answered probe can publish its verdict, and the loop can
\* start its next sweep.
C34_ProbesIndependent ==
    /\ \A r \in DOMAIN probes : \A i \in Pool :
          /\ ProbeInFlight(r, i) =>
                \A o \in ProbeOutcomes : ENABLED ProbeAnswer(r, i, o)
          /\ probes[r][i] \in {"healthy", "unhealthy"} => ENABLED ProbePublish(r, i)
    /\ (loopPc = "waiting" /\ Len(probes) < MaxRounds) => ENABLED HealthTick

\* the probe of the first backend of the first sweep is still in flight; the
\* second backend's result has been published and the next sweep has started
C34_Witness ==
    /\ Len(probes) = 2
    /\ probes[1][1] = "get"
    /\ probes[1][2] = "done"
    /\ lastVerdict[2] # "none"

\* ---- helpers of the metrics claims
\* the layer number of the metrics middleware in the assembled chain
MetricsDepth == CHOOSE k \in 1 .. Len(Chain) : Chain[k] = "metrics"

\* the execution p is inside the metrics middleware
InsideMetrics(p) == p.active /\ p.depth >= MetricsDepth

\* the status the inner handler wrote, 200 when it wrote none
WrittenStatus(d) == IF d = NothingWritten \/ ~d.explicit THEN 200 ELSE d.status

\* C35: the gauge is the number of requests inside the metrics middleware,
\* never negative; a request that leaves the middleware is counted once,
\* under the status the inner handler wrote (200 if none), and no other step
\* changes the counters.
C35_GaugeAndCounter ==
    /\ [](gauge = Cardinality({ i \in PipeSlots : InsideMetrics(pipe[i]) }) /\ gauge >= 0)
    /\ [][IF \E i \in PipeSlots : InsideMetrics(pipe[i]) /\ ~InsideMetrics(pipe'[i])
          THEN \E i \in PipeSlots :
                  /\ InsideMetrics(pipe[i]) /\ ~InsideMetrics(pipe'[i])
                  /\ recorded' = [recorded EXCEPT ![WrittenStatus(pipe[i].d)] = @ + 1]
          ELSE recorded' = recorded]_vars

\* one request has left the metrics middleware with a 502 and was counted;
\* another is inside
C35_Witness ==
    /\ gauge = 1
    /\ recorded[502] = 1
    /\ \E i \in PipeSlots : InsideMetrics(pipe[i]) /\ pipe[i].dir = "down"

\* C36: in every reachable state every backend's weight is at least 1,
\* whatever weights the configuration and the weight updates gave (a weight
\* <= 0 becomes 1), so the total weight of the healthy backends is positive
\* whenever a backend is healthy.
C36_WeightsPositive ==
    /\ \A b \in Pool : weight[b] >= 1
    /\ HealthyOf(healthy) # {} => TotalWeight(healthy, weight) >= 1

\* the pool configured with weights 5 and 1 after a weight update of the
\* first backend with a weight <= 0
C36_Witness ==
    /\ algorithm = WeightedRoundRobin
    /\ urls = << "b1", "b2" >>
    /\ weight = << 1, 1 >>

\* C37: after every SelectBackend call of the weighted balancer the entries
\* of the current-weight vector sum to zero, whatever selections, health
\* updates and weight updates came before the call.
C37_WeightedConservation ==
    (algorithm = WeightedRoundRobin /\ lastRet.kind = "ret")
        => SumOver(currentWeights, Pool) = 0

\* a step in which a SelectBackend call of any balancer returns an error
FailedCall == lastRet'.kind = "ret" /\ lastRet'.err # ErrNone

\* C38: a SelectBackend call that returns an error leaves the balancer state
\* as it was before the call: the round-robin index is back at its starting
\* value after the fruitless sweep, the weighted balancer's current-weight
\* vector is unchanged, and so are health flags, weights and connections.
C38_FailedSelectionNoEffect ==
    [][FailedCall =>
          /\ current' = current
          /\ currentWeights' = currentWeights
          /\ healthy' = healthy
          /\ weight' = weight
          /\ connections' = connections]_vars

\* ---- the order in which probe results are applied
\* a step in which the probe of entry i started in sweep r publishes
ProbePublishStep(r, i) ==
    /\ r \in DOMAIN probes
    /\ probes[r][i] \in {"healthy", "unhealthy"}
    /\ probes'[r][i] = "done"

\* a later sweep's probe of entry i has already published
LaterApplied(r, i) == \E q \in DOMAIN probes : q > r /\ probes[q][i] = "done"

\* C39: for a backend (of its own URL), the result of a probe started in an
\* earlier sweep never overwrites the result of a probe started in a later
\* sweep: once the later sweep's result has been applied, a result of an
\* earlier sweep leaves the healthy flags as they are.
C39_ProbeOrder ==
    [][\A r \in 1..MaxRounds, i \in Pool :
          (/\ ProbePublishStep(r, i)
           /\ LaterApplied(r, i)
           /\ \A j \in Pool : urls[j] = urls[i] => j = i)
              => healthy' = healthy]_vars

\* ---- cache hits in the assembled pipeline
\* the execution is a GET that Cache.Wrap has looked up and found
CacheHit(p) ==
    /\ p.active
    /\ p.req.method = MethodGet
    /\ ~p.miss
    /\ \E j \in 1 .. Len(p.trace) : p.trace[j] = << "cache", "pre" >>

\* the tokens TryConsume finds in the bucket of client c (the clocks stand
\* still: the refill adds nothing)
TokensBefore(c) == IF buckets[c] = NoBucket THEN capacity ELSE buckets[c].tokens

\* C40: a GET answered as a cache HIT has taken one token from the bucket of
\* its client and reaches neither the metrics middleware nor the forwarder:
\* SelectBackend is not called, and no step of it changes the balancer state,
\* the backends' active counters, the in-flight gauge, the request counter
\* or, after the rate limiter, the buckets.
C40_HitStopsAtCache ==
    /\ [](\A i \in PipeSlots : CacheHit(pipe[i]) =>
             /\ \A j \in 1 .. Len(pipe[i].trace) :
                    pipe[i].trace[j][1] \in { "ratelimit", "cache" }
             /\ pipe[i].trace[1] = << "ratelimit", "pre" >>
             /\ ~pipe[i].throttled
             /\ pipe[i].selects = 0)
    /\ [][\A i \in PipeSlots :
             (pipe'[i] # pipe[i] /\ (CacheHit(pipe[i]) \/ CacheHit(pipe'[i]))) =>
                 /\ lbState' = lbState
                 /\ serving' = serving
                 /\ gauge' = gauge
                 /\ recorded' = recorded
                 /\ buckets' = buckets]_vars
    /\ [][\A i \in PipeSlots :
             (Entering(i, "ratelimit") /\ pipe'[i] # pipe[i]
                 /\ ~pipe'[i].throttled) =>
                 LET c == getClientIP(pipe[i].req.rl)
                 IN  /\ buckets'[c].tokens = TokensBefore(c) - 1
                     /\ \A k \in Clients \ {c} : buckets'[k] = buckets[k]]_vars

\* a finished HIT whose client has paid for it and for the request that filled
\* the cache, while another request is inside the metrics middleware
C40_Witness ==
    \E i \in PipeSlots :
        /\ Finished(i)
        /\ CacheHit(pipe[i])
        /\ pipe[i].trace = Nest(2)
        /\ buckets[getClientIP(pipe[i].req.rl)].tokens = capacity - 2
        /\ gauge > 0

====
